---------------------------- MODULE Spec2Model ----------------------------
(***************************************************************************)
(* Model of the Desktop-Widget firmware (Raspberry Pi Pico W, ST7789       *)
(* 320x240 display): the bouncing-ball engine (src/src/ball.c), the        *)
(* fixed-point Mandelbrot renderer (src/src/mandelbrot.c) and the host     *)
(* that drives them (src/src/main.c).                                      *)
(*                                                                         *)
(* Number representation.  TLC's integers are 32-bit, so                   *)
(*   - an int / int32_t / fx value is the integer itself, and every        *)
(*     operation that can leave the 32-bit range is computed limb-wise     *)
(*     and narrowed as the ARM build narrows it (two's complement);        *)
(*   - a uint32_t millisecond reading is the pair <<hi, lo>> of its        *)
(*     16-bit halves, value hi * 65536 + lo.                               *)
(***************************************************************************)
EXTENDS Integers, Sequences, FiniteSets, TLC

(***************************************************************************)
(* Program constants                                                       *)
(***************************************************************************)
SCREEN_WIDTH == 320
SCREEN_HEIGHT == 240
BORDER == 1
MAX_R == 32
FX_SHIFT == 28
FX_ONE == 2^FX_SHIFT
FX_FOUR == 4 * FX_ONE
DISP_W == SCREEN_WIDTH - 2 * BORDER
DISP_H == SCREEN_HEIGHT - 2 * BORDER
SAMPLE_H == DISP_H \div 2
ZOOM_INTERVAL_MS == 10
MAX_ITER_INIT == 64
MAX_ITER_CAP == 140
\* fx_from_double of the two centre literals of mandelbrot_init
\* (trunc(-0.743643887037151 * 2^28), trunc(0.131825904205330 * 2^28)).
CENTER_X == -199620385
CENTER_Y == 35386746

(***************************************************************************)
(* 32-bit arithmetic                                                       *)
(***************************************************************************)
Half == 65536

\* The int32_t whose 16-bit halves are hi and lo (two's complement).
S32(hi, lo) == (IF hi >= 32768 THEN hi - Half ELSE hi) * Half + lo

\* uint32_t readings as <<hi, lo>>.
U32(n) == <<(n \div Half) % Half, n % Half>>

U32Add(a, d) ==
    LET lo == a[2] + d[2]
        hi == a[1] + d[1] + lo \div Half
    IN  <<hi % Half, lo % Half>>

\* a - b in uint32_t arithmetic (modulo 2^32).
U32Sub(a, b) ==
    LET lo == a[2] - b[2]
        hi == a[1] - b[1] + lo \div Half
    IN  <<hi % Half, lo % Half>>

\* a >= n for a small constant n (0 <= n < 65536).
U32Ge(a, n) == a[1] > 0 \/ a[2] >= n

\* a + b on int (32 bits); signed overflow is undefined in C, the build's
\* ADD instruction wraps.
IntAdd(a, b) ==
    LET lo == (a % Half) + (b % Half)
        hi == (a \div Half) + (b \div Half) + lo \div Half
    IN  S32(hi % Half, lo % Half)

\* a - b on int (32 bits), wrapping likewise.
IntSub(a, b) ==
    LET lo == (a % Half) - (b % Half)
        hi == (a \div Half) - (b \div Half) + lo \div Half
    IN  S32(hi % Half, lo % Half)

\* -a on int (32 bits): -INT_MIN wraps to INT_MIN.
IntNeg(a) == IntSub(0, a)

\* fx_add: a + b on int32_t.
fx_add(a, b) == IntAdd(a, b)

\* fx_sub: a - b on int32_t.
fx_sub(a, b) == IntSub(a, b)

\* fx_mul: (fx)((int64_t)a * (int64_t)b >> 28).  With a = a2*2^28 + a1*2^14
\* + a0 (a0, a1 in 0..2^14-1, a2 in -8..7) the 64-bit product is summed by
\* weight; the arithmetic shift floors, the cast keeps the low 32 bits.
fx_mul(a, b) ==
    LET L  == 16384
        a0 == a % L
        a1 == (a \div L) % L
        a2 == a \div (L * L)
        b0 == b % L
        b1 == (b \div L) % L
        b2 == b \div (L * L)
        t0 == a0 * b0
        t1 == a0 * b1 + a1 * b0
        t2 == a0 * b2 + a1 * b1 + a2 * b0
        t3 == a1 * b2 + a2 * b1
        t4 == a2 * b2
        c  == (t1 + t0 \div L) \div L
        x  == c + t2
        u3 == t3 % (4 * Half)
        lo == (x % Half) + (u3 % 4) * L
        hi == (x \div Half) + (u3 \div 4) + (t4 % 16) * 4096 + lo \div Half
    IN  S32(hi % Half, lo % Half)

\* fx_from_double for a decimal literal num/den (den a power of ten up to
\* 1000): trunc(num/den * 2^28), the product formed without leaving 32 bits.
fx_from_double(num, den) ==
    LET q == FX_ONE \div den
        r == FX_ONE % den
        mag(n) == n * q + (n * r) \div den
    IN  IF num >= 0 THEN mag(num) ELSE -mag(-num)


(***************************************************************************)
(* State                                                                   *)
(*   b            the Bouncer (ball.h): cx, cy, vx, vy, r, color, bg,      *)
(*                border                                                   *)
(*   halfw        ball.c's half-width table, indices 0..MAX_R              *)
(*   cached_r     the radius halfw was last computed for (-1: none)        *)
(*   disp         the drawing calls issued by the last ball handler, in    *)
(*                order                                                    *)
(*   color_log    the fill colour bouncer_init set, then the fill colour   *)
(*                after each corner impact, in order (the first MaxLog)    *)
(*   calls        number of precompute_circle calls since boot             *)
(*   frames       number of page_ball_update calls since page_ball_enter   *)
(*   args         the arguments of the last bouncer_init call              *)
(***************************************************************************)
VARIABLES b, halfw, cached_r, disp, color_log, calls, frames, args

ballVars == <<b, halfw, cached_r, disp, color_log, calls, frames, args>>

(***************************************************************************)
(* Fractal state                                                           *)
(*   m             the MandelAnim (mandelbrot.h): cx, cy, scale, max_iter, *)
(*                 y_next                                                  *)
(*   last_zoom_ms  mandelbrot.c's static: the reading at the last zoom     *)
(*                 step (or at mandelbrot_init)                            *)
(*   pal           mandelbrot.c's static 256-entry palette                 *)
(*   now_ms        the last reading of to_ms_since_boot the engine took    *)
(*   passes        number of completed passes (wraps of y_next) since      *)
(*                 mandelbrot_init                                         *)
(*   zoom_steps    number of do_zoom_step calls since mandelbrot_init      *)
(*   rows          what the last mandelbrot_tick did, one record per       *)
(*                 rendered sample row, in order                           *)
(*   mc            the frame of one mandel_color call: the point (cr, ci), *)
(*                 the iteration limit, z = (zr, zi), the count it and     *)
(*                 the position pc in the function                         *)
(***************************************************************************)
VARIABLES m, last_zoom_ms, pal, now_ms, passes, zoom_steps, rows, mc

mandelVars == <<m, last_zoom_ms, pal, now_ms, passes, zoom_steps, rows>>

(***************************************************************************)
(* Host state (main.c)                                                     *)
(*   page        widget.current_page                                       *)
(*   last_time   button_pressed's static table, at the four button pins    *)
(*   clock       the last reading of get_absolute_time (absolute_time_t,   *)
(*               microseconds since boot on 64 bits), as a record: w, ms   *)
(*               and us with value (w * 2^32 + ms) * 1000 + us, ms a       *)
(*               uint32_t reading <<hi, lo>> and us in 0..999              *)
(*   last_clock  widget_run's last_clock_update (absolute_time_t)          *)
(*   last_anim   widget_run's last_anim_update (absolute_time_t)           *)
(*   step        the call widget_run's loop makes next: "poll", "buttons", *)
(*               "display" or "sleep"                                      *)
(*   entered     the pages whose enter routine the last                    *)
(*               handle_button_input ran, in order                         *)
(*   ticked      the page update routines the last handle_display_updates  *)
(*               ran, in order                                             *)
(*   loops       number of loop passes completed                           *)
(*   pins_low    the pins gpio_get read as 0 in the handle_button_input    *)
(*               of this loop pass ({} before it)                          *)
(*   read_at     the clock reading of each button_pressed call of the      *)
(*               handle_button_input of this loop pass, by pin (0 before   *)
(*               it)                                                       *)
(***************************************************************************)
VARIABLES page, last_time, clock, last_clock, last_anim, step, entered,
          ticked, loops, pins_low, read_at

hostVars ==
    <<page, last_time, clock, last_clock, last_anim, step, entered, ticked,
      loops, pins_low, read_at>>

(***************************************************************************)
(* Time-sync state (clock.c)                                               *)
(*   buf           usb_time_sync_poll's static line buffer, indices 0..63  *)
(*   sync_n        its static index n                                      *)
(*   g_time_valid  clock.c's validity flag                                 *)
(*   rtc           the epoch the RTC was last set from (<<0, 0>>: never),  *)
(*                 as <<epoch \div 100000, epoch % 100000>>                *)
(*   out           what the last usb_time_sync_poll printed, in order:     *)
(*                 the message, and whether the RTC was set for it         *)
(*   inp           the bytes the last usb_time_sync_poll read              *)
(*   line          the bytes received since the last newline, carriage     *)
(*                 returns left out                                        *)
(*   polls         number of usb_time_sync_poll calls                      *)
(*   stores        what the last usb_time_sync_poll did to buf and n, in   *)
(*                 order: the kind of step (a byte stored, the NUL of a    *)
(*                 newline, an overflow), n before (the index written,     *)
(*                 unless an overflow) and n after                         *)
(***************************************************************************)
VARIABLES buf, sync_n, g_time_valid, rtc, out, inp, line, polls, stores

syncVars ==
    <<buf, sync_n, g_time_valid, rtc, out, inp, line, polls, stores>>

(***************************************************************************)
(* Span state (ball.c, draw_circle_spans)                                  *)
(*   span_in   the arguments (cx, cy, r) of the last draw_circle_spans     *)
(*             call followed span by span (r = -1: none yet)               *)
(*   spans     what that call sent to the display, in order: for each      *)
(*             span the address window (x0, y, x1, y) and the length of    *)
(*             the transfer                                                *)
(***************************************************************************)
VARIABLES span_in, spans

spanVars == <<span_in, spans>>

(***************************************************************************)
(* Local-time state (clock.c, main.c)                                      *)
(*   tz_in        the datetime_t apply_timezone_simple was last called on  *)
(*   tz_out       the datetime_t it left                                   *)
(*   got          the last clock_get_local_datetime call: its return value *)
(*                and the caller's datetime_t after it                     *)
(*   clock_drawn  the drawing calls of the last clock page routine         *)
(***************************************************************************)
VARIABLES tz_in, tz_out, got, clock_drawn

clockVars == <<tz_in, tz_out, got, clock_drawn>>

vars == <<ballVars, mandelVars, mc, hostVars, syncVars, spanVars, clockVars>>

(***************************************************************************)
(* ball.c                                                                  *)
(***************************************************************************)
\* The inner while loop with >= for >: it also steps off the circle's edge.
RECURSIVE CircleScanInside(_, _, _)
CircleScanInside(x, dy, rr) ==
    IF x > 0 /\ (x * x + dy * dy) >= rr THEN CircleScanInside(x - 1, dy, rr)
    ELSE x

\* The inner while loop of precompute_circle: x decreases from r until
\* x = 0 or x*x + dy*dy <= rr.
\* The inner while loop stopping where the square is within x of the
\* circle (a rounded half-width).
RECURSIVE CircleScanRound(_, _, _)
CircleScanRound(x, dy, rr) ==
    IF x > 0 /\ (x * x + dy * dy) > rr + x THEN CircleScanRound(x - 1, dy, rr)
    ELSE x

RECURSIVE CircleScan(_, _, _)
CircleScan(x, dy, rr) ==
    IF x > 0 /\ (x * x + dy * dy) > rr THEN CircleScan(x - 1, dy, rr) ELSE x

\* precompute_circle that computes the table once and keeps it for every
\* later radius.
precompute_circle_once(r, tab, cr) ==
    IF cr >= 0
    THEN [halfw |-> tab, cached_r |-> cr]
    ELSE [halfw |-> [dy \in 0..MAX_R |->
                        IF dy <= r THEN CircleScan(r, dy, r * r) % 256
                        ELSE tab[dy]],
          cached_r |-> r]

\* precompute_circle(r) on the static table tab cached for radius cr
\* (expects r <= MAX_R): entries above r keep what they held.
precompute_circle(r, tab, cr) ==
    IF r = cr
    THEN [halfw |-> tab, cached_r |-> cr]
    ELSE [halfw |-> [dy \in 0..MAX_R |->
                        IF dy <= r THEN CircleScan(r, dy, r * r) % 256
                        ELSE tab[dy]],
          cached_r |-> r]

\* The static colour table of next_corner_color:
\* red, green, blue, yellow, magenta, cyan, white (RGB565).
colors == <<63488, 2016, 31, 65504, 63519, 2047, 65535>>

\* The for loop of next_corner_color from index i on.
RECURSIVE CornerScan(_, _)
CornerScan(i, cur) ==
    IF i > Len(colors) THEN colors[1]
    ELSE IF colors[i] = cur THEN colors[(i % Len(colors)) + 1]
    ELSE CornerScan(i + 1, cur)

\* next_corner_color that keeps a colour it does not find.
next_corner_color_keep(cur) ==
    IF \E i \in 1..Len(colors) : colors[i] = cur THEN CornerScan(1, cur)
    ELSE cur

next_corner_color(cur) == CornerScan(1, cur)

Circle(cx, cy, r, color) ==
    [op |-> "circle", cx |-> cx, cy |-> cy, r |-> r, color |-> color]

\* bouncer_init that stores the radius it is given.
bouncer_init_noclamp(radius, vx, vy, bg_color, border_color, initial_color) ==
    [r |-> radius, vx |-> vx, vy |-> vy, bg |-> bg_color,
     border |-> border_color, color |-> initial_color,
     cx |-> SCREEN_WIDTH \div 2, cy |-> SCREEN_HEIGHT \div 2]

\* bouncer_init: the Bouncer it leaves.
bouncer_init(radius, vx, vy, bg_color, border_color, initial_color) ==
    LET rad == IF radius > MAX_R THEN MAX_R ELSE radius
    IN  [r |-> rad, vx |-> vx, vy |-> vy, bg |-> bg_color,
         border |-> border_color, color |-> initial_color,
         cx |-> SCREEN_WIDTH \div 2, cy |-> SCREEN_HEIGHT \div 2]

\* bouncer_init that does not draw the ball.
bouncer_init_draws_noball(bn) ==
    << [op |-> "fill", cx |-> 0, cy |-> 0, r |-> 0, color |-> bn.bg],
       [op |-> "border", cx |-> 0, cy |-> 0, r |-> 0, color |-> bn.border] >>

\* The drawing calls of bouncer_init, in order.
bouncer_init_draws(bn) ==
    << [op |-> "fill", cx |-> 0, cy |-> 0, r |-> 0, color |-> bn.bg],
       [op |-> "border", cx |-> 0, cy |-> 0, r |-> 0, color |-> bn.border],
       Circle(bn.cx, bn.cy, bn.r, bn.color) >>

\* min_x without the border column.
min_x_noborder(bo) == bo.r

\* The bounds bouncer_tick computes for the centre of Bouncer bo.
min_x(bo) == BORDER + bo.r
max_x(bo) == (SCREEN_WIDTH - 1 - BORDER) - bo.r
min_y(bo) == BORDER + bo.r
max_y(bo) == (SCREEN_HEIGHT - 1 - BORDER) - bo.r

\* bouncer_tick statement by statement, on a frame f holding the Bouncer
\* and the locals oldx, oldy, hit_v, hit_h.
\* Entry: remember the old centre, advance it by the velocity.
tick_advance(bo) ==
    [b |-> [bo EXCEPT !.cx = IntAdd(bo.cx, bo.vx),
                      !.cy = IntAdd(bo.cy, bo.vy)],
     oldx |-> bo.cx, oldy |-> bo.cy, hit_v |-> FALSE, hit_h |-> FALSE]

\* tick_min_x that clamps the centre but keeps the velocity.
tick_min_x_noflip(f) ==
    IF f.b.cx <= min_x(f.b)
    THEN [f EXCEPT !.b.cx = min_x(f.b), !.hit_v = TRUE]
    ELSE f

\* if (b->cx <= min_x) ...
tick_min_x(f) ==
    IF f.b.cx <= min_x(f.b)
    THEN [f EXCEPT !.b.cx = min_x(f.b), !.b.vx = IntNeg(f.b.vx),
                   !.hit_v = TRUE]
    ELSE f

\* tick_max_x that reverses the velocity but leaves the centre where the
\* step took it.
tick_max_x_noclamp(f) ==
    IF f.b.cx >= max_x(f.b)
    THEN [f EXCEPT !.b.vx = IntNeg(f.b.vx), !.hit_v = TRUE]
    ELSE f

\* tick_max_x with > for >=: a centre exactly on the boundary passes.
tick_max_x_strict(f) ==
    IF f.b.cx > max_x(f.b)
    THEN [f EXCEPT !.b.cx = max_x(f.b), !.b.vx = IntNeg(f.b.vx),
                   !.hit_v = TRUE]
    ELSE f

\* if (b->cx >= max_x) ...
tick_max_x(f) ==
    IF f.b.cx >= max_x(f.b)
    THEN [f EXCEPT !.b.cx = max_x(f.b), !.b.vx = IntNeg(f.b.vx),
                   !.hit_v = TRUE]
    ELSE f

\* tick_min_y that halves the speed it reverses.
tick_min_y_damp(f) ==
    IF f.b.cy <= min_y(f.b)
    THEN [f EXCEPT !.b.cy = min_y(f.b), !.b.vy = IntNeg(f.b.vy) \div 2,
                   !.hit_h = TRUE]
    ELSE f

\* if (b->cy <= min_y) ...
tick_min_y(f) ==
    IF f.b.cy <= min_y(f.b)
    THEN [f EXCEPT !.b.cy = min_y(f.b), !.b.vy = IntNeg(f.b.vy),
                   !.hit_h = TRUE]
    ELSE f

\* tick_max_y that leaves the velocity pointing down, at the wall.
tick_max_y_outward(f) ==
    IF f.b.cy >= max_y(f.b)
    THEN [f EXCEPT !.b.cy = max_y(f.b),
                   !.b.vy = IF f.b.vy < 0 THEN IntNeg(f.b.vy) ELSE f.b.vy,
                   !.hit_h = TRUE]
    ELSE f

\* if (b->cy >= max_y) ...
tick_max_y(f) ==
    IF f.b.cy >= max_y(f.b)
    THEN [f EXCEPT !.b.cy = max_y(f.b), !.b.vy = IntNeg(f.b.vy),
                   !.hit_h = TRUE]
    ELSE f

\* tick_corner that advances the colour on a hit of either axis.
tick_corner_any(f) ==
    IF f.hit_v \/ f.hit_h
    THEN [f EXCEPT !.b.color = next_corner_color(f.b.color)]
    ELSE f

\* if (hit_v && hit_h) b->color = next_corner_color(b->color);
tick_corner(f) ==
    IF f.hit_v /\ f.hit_h
    THEN [f EXCEPT !.b.color = next_corner_color(f.b.color)]
    ELSE f

\* (uint16_t)v
U16(v) == v % 65536

\* span_row without the clamp of x1 to the right edge of the screen.
span_row_noclip(cx, cy, dy, tab) ==
    LET ay == IF dy < 0 THEN -dy ELSE dy
        dx == tab[ay]
        y == IntAdd(cy, dy)
        x0 == IntSub(cx, dx)
        x1 == IntAdd(cx, dx)
        x0c == IF x0 < 0 THEN 0 ELSE x0
        len == IntAdd(IntSub(x1, x0c), 1)
    IN  IF y < 0 \/ y >= SCREEN_HEIGHT THEN << >>
        ELSE IF len <= 0 THEN << >>
        ELSE << [x0 |-> U16(x0c), y |-> U16(y), x1 |-> U16(x1),
                 len |-> len] >>

\* sizeof(spanbuf) / sizeof(spanbuf[0])
SPANBUF_LEN == 2 * MAX_R + 1

\* for (int i = 0; i < 2 * r + 1; i++) spanbuf[i] = pix: the number of
\* entries of spanbuf the call fills.
spanbuf_filled(r) == IF 2 * r + 1 > 0 THEN 2 * r + 1 ELSE 0

\* The indices ay at which the row loop of draw_circle_spans reads halfw,
\* in order.
halfw_reads(r) ==
    [k \in 1..spanbuf_filled(r) |->
        LET dy == k - 1 - r IN IF dy < 0 THEN -dy ELSE dy]

\* span_row that transfers one pixel more than the window holds.
span_row_long(cx, cy, dy, tab) ==
    LET ay == IF dy < 0 THEN -dy ELSE dy
        dx == tab[ay]
        y == IntAdd(cy, dy)
        x0 == IntSub(cx, dx)
        x1 == IntAdd(cx, dx)
        x0c == IF x0 < 0 THEN 0 ELSE x0
        x1c == IF x1 >= SCREEN_WIDTH THEN SCREEN_WIDTH - 1 ELSE x1
        len == IntAdd(IntSub(x1c, x0c), 2)
    IN  IF y < 0 \/ y >= SCREEN_HEIGHT THEN << >>
        ELSE IF len <= 0 THEN << >>
        ELSE << [x0 |-> U16(x0c), y |-> U16(y), x1 |-> U16(x1c),
                 len |-> len] >>

\* The body of draw_circle_spans' row loop for one dy: the spans it sends
\* (none after either continue, else one).  int arithmetic wraps.
span_row(cx, cy, dy, tab) ==
    LET ay == IF dy < 0 THEN -dy ELSE dy
        dx == tab[ay]
        y == IntAdd(cy, dy)
        x0 == IntSub(cx, dx)
        x1 == IntAdd(cx, dx)
        x0c == IF x0 < 0 THEN 0 ELSE x0
        x1c == IF x1 >= SCREEN_WIDTH THEN SCREEN_WIDTH - 1 ELSE x1
        len == IntAdd(IntSub(x1c, x0c), 1)
    IN  IF y < 0 \/ y >= SCREEN_HEIGHT THEN << >>
        ELSE IF len <= 0 THEN << >>
        ELSE << [x0 |-> U16(x0c), y |-> U16(y), x1 |-> U16(x1c),
                 len |-> len] >>

\* for (int dy = -r; dy <= r; dy++) ..., from row dy on.
RECURSIVE span_loop(_, _, _, _, _)
span_loop(cx, cy, r, dy, tab) ==
    IF dy > r THEN << >>
    ELSE span_row(cx, cy, dy, tab) \o span_loop(cx, cy, r, dy + 1, tab)

\* draw_circle_spans(cx, cy, r, color) on the table tab: the spans sent to
\* the display, in order (every pixel of a span has the given colour).
draw_circle_spans(cx, cy, r, tab) == span_loop(cx, cy, r, -r, tab)

\* tick_draws that draws the new circle before it erases the old one.
tick_draws_swapped(f) ==
    << Circle(f.b.cx, f.b.cy, f.b.r, f.b.color),
       Circle(f.oldx, f.oldy, f.b.r, f.b.bg) >>

\* The two draw_circle_spans calls that end bouncer_tick, in order.
tick_draws(f) ==
    << Circle(f.oldx, f.oldy, f.b.r, f.b.bg),
       Circle(f.b.cx, f.b.cy, f.b.r, f.b.color) >>

\* bouncer_tick on Bouncer bo: the frame at its end (the Bouncer it leaves
\* and the two hit flags).
bouncer_tick(bo) ==
    tick_corner(tick_max_y(tick_min_y(tick_max_x(tick_min_x(
        tick_advance(bo))))))

(***************************************************************************)
(* Inputs of the ball specifications: radii below, at and above MAX_R,     *)
(* velocities from INT_MIN to INT_MAX, fill colours in and out of the      *)
(* corner palette.                                                         *)
(***************************************************************************)
INT_MAX == 2147483647
INT_MIN == -INT_MAX - 1
RadiusSet == {-3, 0, 12, MAX_R, MAX_R + 8}
VelSet == {INT_MIN, -300, 0, 6, INT_MAX}
\* At most this many fill colours are kept in color_log.
MaxLog == 14
BLACK == 0
RED == 63488
CYAN == 2047
ColorSet == {RED, 4660}

BootHalfw == [dy \in 0..MAX_R |-> 0]

\* The state bouncer_init leaves when called on the state (tab, cr) of the
\* geometry cache.
AfterBouncerInit(radius, vx, vy, bg, border, color, tab, cr) ==
    LET bn == bouncer_init(radius, vx, vy, bg, border, color)
        pc == precompute_circle(bn.r, tab, cr)
    IN  /\ b = bn
        /\ halfw = pc.halfw
        /\ cached_r = pc.cached_r
        /\ disp = bouncer_init_draws(bn)
        /\ args = [radius |-> radius, vx |-> vx, vy |-> vy, bg |-> bg,
                   border |-> border, color |-> color]

\* Any bouncer_init as the first call after boot.
InitBall ==
    /\ \E radius \in RadiusSet, vx \in VelSet, vy \in VelSet, color \in ColorSet :
          AfterBouncerInit(radius, vx, vy, BLACK, RED, color, BootHalfw, -1)
    /\ color_log = <<b.color>>
    /\ calls = 1
    /\ frames = 0

\* page_ball_enter as the first call after boot: radius 12, velocity (2, 2),
\* cyan ball on the host's black background with its red border.
InitBallE2E ==
    /\ AfterBouncerInit(12, 2, 2, BLACK, RED, CYAN, BootHalfw, -1)
    /\ color_log = <<b.color>>
    /\ calls = 1
    /\ frames = 0

\* At most this many precompute_circle calls are followed.
MaxCalls == 2

\* One call of precompute_circle with a radius within its contract.
PrecomputeCircle ==
    /\ calls < MaxCalls
    /\ \E r \in 0..MAX_R :
          LET pc == precompute_circle(r, halfw, cached_r)
          IN  /\ halfw' = pc.halfw
              /\ cached_r' = pc.cached_r
    /\ calls' = calls + 1
    /\ UNCHANGED <<b, disp, color_log, frames, args>>
    /\ UNCHANGED <<mandelVars, mc, hostVars, syncVars, spanVars, clockVars>>

\* Centres draw_circle_spans is called with: on the screen, across each
\* edge, just off the screen and far off it.
SpanXSet == {-100000, -5, 160, 300, 324, 360, 100000}
SpanYSet == {-100000, -40, -5, 120, 244, 100000}

\* precompute_circle(r) from boot for any radius within the contract; no
\* draw_circle_spans call yet.
InitSpans ==
    /\ \E r \in 0..MAX_R :
          LET pc == precompute_circle(r, BootHalfw, -1)
          IN  /\ halfw = pc.halfw
              /\ cached_r = pc.cached_r
    /\ b = [cx |-> 0, cy |-> 0, vx |-> 0, vy |-> 0, r |-> 0,
            color |-> 0, bg |-> 0, border |-> 0]
    /\ disp = << >>
    /\ color_log = << >>
    /\ calls = 1
    /\ frames = 0
    /\ args = [radius |-> 0, vx |-> 0, vy |-> 0, bg |-> 0, border |-> 0,
               color |-> 0]
    /\ span_in = [cx |-> 0, cy |-> 0, r |-> -1]
    /\ spans = << >>

\* One draw_circle_spans call for the cached radius at any centre.
DrawCircleSpans ==
    /\ \E cx \in SpanXSet, cy \in SpanYSet :
          /\ span_in' = [cx |-> cx, cy |-> cy, r |-> cached_r]
          /\ spans' = draw_circle_spans(cx, cy, cached_r, halfw)
    /\ UNCHANGED <<ballVars, mandelVars, mc, hostVars, syncVars, clockVars>>

\* bouncer_tick on the current Bouncer, as a step of the state.
DoBouncerTick ==
    LET t == bouncer_tick(b)
    IN  /\ b' = t.b
        /\ disp' = tick_draws(t)
        /\ color_log' = IF t.hit_v /\ t.hit_h /\ Len(color_log) < MaxLog
                         THEN Append(color_log, t.b.color)
                         ELSE color_log
        /\ UNCHANGED <<halfw, cached_r, calls, args>>
        /\ UNCHANGED <<mandelVars, mc>>

\* Velocities of a repeated bouncer_init.
ReinitVelSet == {-300, 6}

\* Velocities whose sum with every centre coordinate is an int: zero, and
\* slow and fast ones to either side.
BounceVelSet == {-2147483000, -300, 0, 6, 2147483000}

\* Any bouncer_init with such a velocity as the first call after boot.
InitBounce ==
    /\ \E radius \in RadiusSet, vx \in BounceVelSet, vy \in BounceVelSet,
          color \in ColorSet :
          AfterBouncerInit(radius, vx, vy, BLACK, RED, color, BootHalfw, -1)
    /\ color_log = <<b.color>>
    /\ calls = 1
    /\ frames = 0

\* One more call of bouncer_init on the ball state, with any radius.
BouncerInit ==
    /\ calls < MaxCalls
    /\ \E radius \in RadiusSet, vx \in ReinitVelSet, vy \in ReinitVelSet,
          color \in {RED} :
          LET bn == bouncer_init(radius, vx, vy, BLACK, RED, color)
              pc == precompute_circle(bn.r, halfw, cached_r)
          IN  /\ b' = bn
              /\ halfw' = pc.halfw
              /\ cached_r' = pc.cached_r
              /\ disp' = bouncer_init_draws(bn)
              /\ args' = [radius |-> radius, vx |-> vx, vy |-> vy,
                          bg |-> BLACK, border |-> RED, color |-> color]
              /\ color_log' = <<bn.color>>
    /\ calls' = calls + 1
    /\ UNCHANGED <<frames, mandelVars, mc, hostVars, syncVars, spanVars, clockVars>>

\* At most this many ticks are followed where bouncer_init is called again.
MaxCacheTicks == 4

\* One call of bouncer_tick, counted.
CountedTick ==
    /\ frames < MaxCacheTicks
    /\ DoBouncerTick
    /\ frames' = frames + 1
    /\ UNCHANGED <<hostVars, syncVars, spanVars, clockVars>>

\* At most this many ticks are followed where the spans of every circle
\* are looked at.
MaxPaintTicks == 40

\* One call of bouncer_tick, counted up to MaxPaintTicks.
PaintTick ==
    /\ frames < MaxPaintTicks
    /\ DoBouncerTick
    /\ frames' = frames + 1
    /\ UNCHANGED <<hostVars, syncVars, spanVars, clockVars>>

\* One call of bouncer_tick.
BouncerTick == DoBouncerTick /\ UNCHANGED <<frames, hostVars, syncVars, spanVars, clockVars>>

\* At most this many frames of the ball page are followed.
MaxFrames == 300

\* page_ball_update: one frame of the ball page.
PageBallUpdate ==
    /\ frames < MaxFrames
    /\ DoBouncerTick
    /\ frames' = frames + 1
    /\ UNCHANGED <<hostVars, syncVars, spanVars, clockVars>>


(***************************************************************************)
(* mandelbrot.c                                                            *)
(***************************************************************************)
\* Bitwise exclusive or of two naturals.
RECURSIVE Xor(_, _)
Xor(x, y) ==
    IF x = 0 THEN y
    ELSE IF y = 0 THEN x
    ELSE ((x + y) % 2) + 2 * Xor(x \div 2, y \div 2)

\* color565 of the display library: 5-6-5 packing of 8-bit channels.
color565(r, g, bl) == (r \div 8) * 2048 + (g \div 4) * 32 + (bl \div 8)

\* The for loop of palette_init: entry i from the generating formula.
palette_loop ==
    [i \in 0..255 |->
        color565(i % 256, Xor(i * 5, i * 2) % 256, (255 - i) % 256)]

\* palette_init without its last statement.
palette_init_nofix == palette_loop

\* palette_init: the table it leaves (the loop, then pal[0] = black).
palette_init == [palette_loop EXCEPT ![0] = color565(0, 0, 0)]

ZOOM_FACTOR == fx_from_double(985, 1000)
SCALE_INIT == fx_from_double(10, 1000)

\* do_zoom_step that forgets to scale.
do_zoom_step_noscale(mm) ==
    [mm EXCEPT !.max_iter = IF mm.max_iter < MAX_ITER_CAP
                            THEN mm.max_iter + 1 ELSE mm.max_iter]

\* do_zoom_step that zooms out: the factor is 1.015 for 0.985.
do_zoom_step_out(mm) ==
    [mm EXCEPT !.scale = fx_mul(mm.scale, fx_from_double(1015, 1000)),
               !.max_iter = IF mm.max_iter < MAX_ITER_CAP
                            THEN mm.max_iter + 1 ELSE mm.max_iter]

\* do_zoom_step whose cap test is <= for <.
do_zoom_step_capoff(mm) ==
    [mm EXCEPT !.scale = fx_mul(mm.scale, ZOOM_FACTOR),
               !.max_iter = IF mm.max_iter <= MAX_ITER_CAP
                            THEN mm.max_iter + 1 ELSE mm.max_iter]

\* do_zoom_step on MandelAnim mm.
do_zoom_step(mm) ==
    [mm EXCEPT !.scale = fx_mul(mm.scale, ZOOM_FACTOR),
               !.max_iter = IF mm.max_iter < MAX_ITER_CAP
                            THEN mm.max_iter + 1 ELSE mm.max_iter]

\* mandelbrot_init when to_ms_since_boot reads t: the engine state it leaves.
mandelbrot_init(t) ==
    [m |-> [cx |-> CENTER_X, cy |-> CENTER_Y, scale |-> SCALE_INIT,
            max_iter |-> MAX_ITER_INIT, y_next |-> 0],
     last_zoom_ms |-> t, now_ms |-> t, passes |-> 0, zoom_steps |-> 0,
     rows |-> << >>]

\* The wrap test with > for >=.
pass_done_late(y_next) == y_next > SAMPLE_H

\* if (m->y_next >= SAMPLE_H): the pass is complete.
pass_done(y_next) == y_next >= SAMPLE_H

\* The interval test with > for >=.
zoom_due_strict(now, last) ==
    U32Ge(U32Sub(now, last), ZOOM_INTERVAL_MS + 1)

\* if ((now_ms - last_zoom_ms) >= ZOOM_INTERVAL_MS), in uint32_t arithmetic.
zoom_due(now, last) == U32Ge(U32Sub(now, last), ZOOM_INTERVAL_MS)

\* TickRow with y0 = sy * 2: the scan starts on the border row 0.
TickRow_noborder(st, dt) ==
    LET sy    == st.m.y_next
        y0    == sy * 2
        y1    == y0 + 1
        ynext == (st.m.y_next + 1) % Half
        wrap  == pass_done(ynext)
        now   == U32Add(st.now_ms, U32(dt))
        diff  == U32Sub(now, st.last_zoom_ms)
        gate  == wrap /\ zoom_due(now, st.last_zoom_ms)
        m1    == [st.m EXCEPT !.y_next = IF wrap THEN 0 ELSE ynext]
        row   == [sy |-> sy, y0 |-> y0, y1 |-> y1, scale |-> st.m.scale,
                  max_iter |-> st.m.max_iter, wrap |-> wrap,
                  diff |-> IF wrap THEN diff ELSE U32(0), zoom |-> gate,
                  rendered |-> y0, pushed |-> <<y0, y1>>,
                  last_zoom_ms |-> IF gate THEN now ELSE st.last_zoom_ms,
                  cx |-> st.m.cx, cy |-> st.m.cy]
    IN  [m |-> IF gate THEN do_zoom_step(m1) ELSE m1,
         last_zoom_ms |-> IF gate THEN now ELSE st.last_zoom_ms,
         now_ms |-> IF wrap THEN now ELSE st.now_ms,
         passes |-> IF wrap THEN st.passes + 1 ELSE st.passes,
         zoom_steps |-> IF gate THEN st.zoom_steps + 1 ELSE st.zoom_steps,
         rows |-> Append(st.rows, row)]

\* TickRow that stamps last_zoom_ms at every completed pass, zoom or not.
TickRow_restamp(st, dt) ==
    LET sy    == st.m.y_next
        y0    == BORDER + sy * 2
        y1    == y0 + 1
        ynext == (st.m.y_next + 1) % Half
        wrap  == pass_done(ynext)
        now   == U32Add(st.now_ms, U32(dt))
        diff  == U32Sub(now, st.last_zoom_ms)
        gate  == wrap /\ zoom_due(now, st.last_zoom_ms)
        m1    == [st.m EXCEPT !.y_next = IF wrap THEN 0 ELSE ynext]
        row   == [sy |-> sy, y0 |-> y0, y1 |-> y1, scale |-> st.m.scale,
                  max_iter |-> st.m.max_iter, wrap |-> wrap,
                  diff |-> IF wrap THEN diff ELSE U32(0), zoom |-> gate,
                  rendered |-> y0, pushed |-> <<y0, y1>>,
                  last_zoom_ms |-> IF wrap THEN now ELSE st.last_zoom_ms,
                  cx |-> st.m.cx, cy |-> st.m.cy]
    IN  [m |-> IF gate THEN do_zoom_step(m1) ELSE m1,
         last_zoom_ms |-> IF wrap THEN now ELSE st.last_zoom_ms,
         now_ms |-> IF wrap THEN now ELSE st.now_ms,
         passes |-> IF wrap THEN st.passes + 1 ELSE st.passes,
         zoom_steps |-> IF gate THEN st.zoom_steps + 1 ELSE st.zoom_steps,
         rows |-> Append(st.rows, row)]

\* One iteration of the for loop of mandelbrot_tick on engine state st; dt
\* is the time that has passed since the previous reading when this
\* iteration reads the clock (it reads it only when the pass completes).
\* The row record keeps the sample row, the two display rows the scanline
\* is pushed to (in this order), the scale and iteration limit it was
\* rendered with, whether the pass completed, the unsigned difference
\* now_ms - last_zoom_ms the gate compared, and whether it zoomed; then the
\* display row render_scanline was called for, the display rows of the
\* push_scanline_swapped_xy calls in call order, and last_zoom_ms and the
\* centre as the iteration leaves them.
TickRow(st, dt) ==
    LET sy    == st.m.y_next
        y0    == BORDER + sy * 2
        y1    == y0 + 1
        ynext == (st.m.y_next + 1) % Half
        wrap  == pass_done(ynext)
        now   == U32Add(st.now_ms, U32(dt))
        diff  == U32Sub(now, st.last_zoom_ms)
        gate  == wrap /\ zoom_due(now, st.last_zoom_ms)
        m1    == [st.m EXCEPT !.y_next = IF wrap THEN 0 ELSE ynext]
        row   == [sy |-> sy, y0 |-> y0, y1 |-> y1, scale |-> st.m.scale,
                  max_iter |-> st.m.max_iter, wrap |-> wrap,
                  diff |-> IF wrap THEN diff ELSE U32(0), zoom |-> gate,
                  rendered |-> y0, pushed |-> <<y0, y1>>,
                  last_zoom_ms |-> IF gate THEN now ELSE st.last_zoom_ms,
                  cx |-> st.m.cx, cy |-> st.m.cy]
    IN  [m |-> IF gate THEN do_zoom_step(m1) ELSE m1,
         last_zoom_ms |-> IF gate THEN now ELSE st.last_zoom_ms,
         now_ms |-> IF wrap THEN now ELSE st.now_ms,
         passes |-> IF wrap THEN st.passes + 1 ELSE st.passes,
         zoom_steps |-> IF gate THEN st.zoom_steps + 1 ELSE st.zoom_steps,
         rows |-> Append(st.rows, row)]

\* The body of the for loop of mandelbrot_tick, then i++: ls.st is the
\* engine state, ls.i the loop counter and ls.dts the time steps of the
\* clock readings still to come, one per completed pass.
TickStep(ls) ==
    LET wraps == pass_done((ls.st.m.y_next + 1) % Half)
    IN  [st  |-> TickRow(ls.st, IF wraps THEN Head(ls.dts) ELSE 0),
         i   |-> ls.i + 1,
         dts |-> IF wraps THEN Tail(ls.dts) ELSE ls.dts]

\* for (i = 0; i < lines_per_tick; i++) from loop state ls on.
RECURSIVE TickLoop(_, _)
TickLoop(ls, lines_per_tick) ==
    IF ls.i < lines_per_tick THEN TickLoop(TickStep(ls), lines_per_tick)
    ELSE ls

\* mandelbrot_tick that starts every call at sample row 0.
mandelbrot_tick_restart(st, lines_per_tick, dts) ==
    LET n == IF lines_per_tick = 0 THEN 1 ELSE lines_per_tick
    IN  TickLoop([st |-> [st EXCEPT !.rows = << >>, !.m.y_next = 0],
                  i |-> 0, dts |-> dts], n).st

\* mandelbrot_tick without the promotion of a zero budget to 1.
mandelbrot_tick_nozero(st, lines_per_tick, dts) ==
    TickLoop([st |-> [st EXCEPT !.rows = << >>], i |-> 0, dts |-> dts],
             lines_per_tick).st

\* mandelbrot_tick(m, lines_per_tick) on engine state st.
mandelbrot_tick(st, lines_per_tick, dts) ==
    LET n == IF lines_per_tick = 0 THEN 1 ELSE lines_per_tick
    IN  TickLoop([st |-> [st EXCEPT !.rows = << >>], i |-> 0, dts |-> dts],
                 n).st

\* The engine state as one record.
Engine ==
    [m |-> m, last_zoom_ms |-> last_zoom_ms, now_ms |-> now_ms,
     passes |-> passes, zoom_steps |-> zoom_steps, rows |-> rows]

SetEngine(st) ==
    /\ m' = st.m
    /\ last_zoom_ms' = st.last_zoom_ms
    /\ now_ms' = st.now_ms
    /\ passes' = st.passes
    /\ zoom_steps' = st.zoom_steps
    /\ rows' = st.rows

(***************************************************************************)
(* Inputs of the fractal specifications                                    *)
(***************************************************************************)
\* Row budgets a caller passes (the host passes 32).
LinesSet == {0, 32, SAMPLE_H + 1}
\* Milliseconds between two clock readings.
DtSet == {4, ZOOM_INTERVAL_MS}
\* Readings at mandelbrot_init: just after boot, and 6 ms before the
\* uint32_t millisecond counter wraps.
InitClocks == {U32(0), <<65535, 65530>>}
\* At most this many passes / zoom steps are followed.
MaxPasses == 2
MaxZoomSteps == 760
\* No tick of LinesSet completes more than two passes.
DtSeqs == {<<d1, d2>> : d1 \in DtSet, d2 \in DtSet}

InitMandel ==
    /\ \E t \in InitClocks :
          LET st == mandelbrot_init(t)
          IN  /\ m = st.m
              /\ last_zoom_ms = st.last_zoom_ms
              /\ now_ms = st.now_ms
              /\ passes = st.passes
              /\ zoom_steps = st.zoom_steps
              /\ rows = st.rows
    /\ pal = palette_init

\* One call of mandelbrot_tick with any budget and any monotonic clock.
MandelbrotTick ==
    /\ passes < MaxPasses
    /\ \E lines \in LinesSet, dts \in DtSeqs :
          SetEngine(mandelbrot_tick(Engine, lines, dts))
    /\ UNCHANGED <<pal, mc, ballVars, hostVars, syncVars, spanVars, clockVars>>

\* One call of mandelbrot_tick that renders a whole pass, the clock
\* ZOOM_INTERVAL_MS further at its end.
MandelbrotPass ==
    /\ zoom_steps < MaxZoomSteps
    /\ SetEngine(mandelbrot_tick(Engine, SAMPLE_H, <<ZOOM_INTERVAL_MS>>))
    /\ UNCHANGED <<pal, mc, ballVars, hostVars, syncVars, spanVars, clockVars>>


(***************************************************************************)
(* mandel_color                                                            *)
(***************************************************************************)
\* in_cardioid_or_bulb(cr, ci).
in_cardioid_or_bulb(cr, ci) ==
    LET y2   == fx_mul(ci, ci)
        x1   == fx_add(cr, FX_ONE)
        x1_2 == fx_mul(x1, x1)
        one_over_16 == FX_ONE \div 16
        quarter == FX_ONE \div 4
        xm   == fx_sub(cr, quarter)
        q    == fx_add(fx_mul(xm, xm), y2)
        left == fx_mul(q, fx_add(q, xm))
        right == y2 \div 4
    IN  IF fx_add(x1_2, y2) <= one_over_16 THEN TRUE ELSE left <= right

\* The entry of mandel_color with the orbit started at z = c.
mandel_color_entry_zc(cr, ci, max_iter) ==
    [pc |-> "test", cr |-> cr, ci |-> ci, max_iter |-> max_iter,
     zr |-> cr, zi |-> ci, it |-> 0, ret |-> -1]

\* The frame at the entry of mandel_color for the point (cr, ci).
mandel_color_entry(cr, ci, max_iter) ==
    [pc |-> "test", cr |-> cr, ci |-> ci, max_iter |-> max_iter,
     zr |-> 0, zi |-> 0, it |-> 0, ret |-> -1]

\* The interior short-circuit of mandel_color: return black or enter the
\* loop with z = 0, it = 0.
mandel_color_test(f) ==
    IF in_cardioid_or_bulb(f.cr, f.ci) THEN [f EXCEPT !.pc = "black"]
    ELSE [f EXCEPT !.pc = "loop"]

\* The loop body without the addition of c: z <- z^2.
mandel_color_loop_noc(f) ==
    LET zr2 == fx_mul(f.zr, f.zr)
        zi2 == fx_mul(f.zi, f.zi)
        p   == fx_mul(f.zr, f.zi)
    IN  IF ~(f.it < f.max_iter) THEN [f EXCEPT !.pc = "exhausted"]
        ELSE IF fx_add(zr2, zi2) > FX_FOUR THEN [f EXCEPT !.pc = "escaped"]
        ELSE [f EXCEPT !.zr = fx_sub(zr2, zi2),
                       !.zi = fx_add(p, p),
                       !.it = (f.it + 1) % Half]

\* One evaluation of the while loop of mandel_color on frame f: leave it
\* when it = max_iter, break on |z|^2 > 4, else z <- z^2 + c and it++.
mandel_color_loop(f) ==
    LET zr2 == fx_mul(f.zr, f.zr)
        zi2 == fx_mul(f.zi, f.zi)
        p   == fx_mul(f.zr, f.zi)
        two_zr_zi == fx_add(p, p)
    IN  IF ~(f.it < f.max_iter) THEN [f EXCEPT !.pc = "exhausted"]
        ELSE IF fx_add(zr2, zi2) > FX_FOUR THEN [f EXCEPT !.pc = "escaped"]
        ELSE [f EXCEPT !.zr = fx_add(fx_sub(zr2, zi2), f.cr),
                       !.zi = fx_add(two_zr_zi, f.ci),
                       !.it = (f.it + 1) % Half]

\* The while loop of mandel_color run from frame f until it is left.
RECURSIVE mandel_color_while(_)
mandel_color_while(f) ==
    IF f.pc = "loop" THEN mandel_color_while(mandel_color_loop(f)) ELSE f

\* pixel_to_complex(m, x, y): the point <<cr, ci>> of display pixel (x, y).
\* |dx|, |dy| <= 160 and scale <= 0.010 keep the products within 32 bits.
pixel_to_complex(mm, x, y) ==
    LET dx == x - (SCREEN_WIDTH \div 2)
        dy == y - (SCREEN_HEIGHT \div 2)
    IN  <<IntAdd(mm.cx, dx * mm.scale), IntAdd(mm.cy, dy * mm.scale)>>

\* mandel_color_return that indexes the palette by the raw count it.
mandel_color_return_raw(f, p) ==
    IF f.pc = "black" THEN color565(0, 0, 0)
    ELSE IF f.it = f.max_iter THEN color565(0, 0, 0)
    ELSE p[f.it % 256]

\* What mandel_color returns from frame f with palette p: black after the
\* short-circuit or when it = max_iter, else the palette entry of it.
mandel_color_return(f, p) ==
    IF f.pc = "black" THEN color565(0, 0, 0)
    ELSE IF f.it = f.max_iter THEN color565(0, 0, 0)
    ELSE p[((f.it * 255) \div f.max_iter) % 256]

IdleFrame == [pc |-> "idle", cr |-> 0, ci |-> 0, max_iter |-> 0,
              zr |-> 0, zi |-> 0, it |-> 0, ret |-> -1]

\* Display columns sampled from a scanline (render_scanline walks 1..318).
XSet == {1, 60, 119, 160, 318}

\* mandel_color is entered for a pixel of the first frame: column x of
\* sample row sy, under the MandelAnim mandelbrot_init left.
InitPixel ==
    \E x \in XSet, sy \in 0..(SAMPLE_H - 1) :
        LET c == pixel_to_complex(m, x, BORDER + sy * 2)
        IN  mc = mandel_color_entry(c[1], c[2], m.max_iter)

\* mandel_color decides whether the point is iterated at all.
ColorTest ==
    /\ mc.pc = "test"
    /\ mc' = mandel_color_test(mc)
    /\ UNCHANGED <<ballVars, mandelVars, hostVars, syncVars, spanVars, clockVars>>

\* mandel_color evaluates its loop once more.
ColorLoop ==
    /\ mc.pc = "loop"
    /\ mc' = mandel_color_loop(mc)
    /\ UNCHANGED <<ballVars, mandelVars, hostVars, syncVars, spanVars, clockVars>>

(***************************************************************************)
(* main.c                                                                  *)
(***************************************************************************)
BUTTON_A_PIN == 12
BUTTON_B_PIN == 13
BUTTON_X_PIN == 14
BUTTON_Y_PIN == 15
Pins == {BUTTON_A_PIN, BUTTON_B_PIN, BUTTON_X_PIN, BUTTON_Y_PIN}
\* The DisplayPage enumeration.
PAGE_CLOCK == 0
PAGE_QUOTE == 1
PAGE_BALL == 2
PAGE_MANDELBROT == 3
\* The debounce time of button_pressed, in ms.
DEBOUNCE_MS == 200
\* CLOCK_UPDATE_INTERVAL_US and ANIM_UPDATE_INTERVAL_US.
CLOCK_UPDATE_INTERVAL_US == 1000000
ANIM_UPDATE_INTERVAL_US == 16666
\* The budget page_mandelbrot_update passes.
HOST_LINES == 32

\* The absolute_time_t of ms milliseconds (below 2^31) and us microseconds
\* since boot.
AbsTime(ms, us) == [w |-> 0, ms |-> U32(ms), us |-> us]

\* to_ms_since_boot(t): the microseconds divided by 1000, as uint32_t.
to_ms_since_boot(t) == t.ms

\* a < c on uint32_t readings.
U32Less(a, c) == a[1] < c[1] \/ (a[1] = c[1] /\ a[2] < c[2])

\* The absolute_time_t d microseconds (0 <= d < 2^31) after t.
TimeAddUs(t, d) ==
    LET us2 == t.us + d
        ms2 == U32Add(t.ms, U32(us2 \div 1000))
    IN  [w |-> IF U32Less(ms2, t.ms) THEN t.w + 1 ELSE t.w,
         ms |-> ms2, us |-> us2 % 1000]

\* absolute_time_diff_us(from, to) > interval, the difference on int64_t
\* and 0 < interval < 65536000.
diff_us_above(from, to, interval) ==
    LET dw  == to.w - from.w
        dms == U32Sub(to.ms, from.ms)
        dus == to.us - from.us
    IN  IF dw < 0 \/ (dw = 0 /\ U32Less(to.ms, from.ms)) THEN FALSE
        ELSE IF dw >= 2 \/ (dw = 1 /\ ~U32Less(to.ms, from.ms)) THEN TRUE
        ELSE IF dms[1] > 0 THEN TRUE
        ELSE dms[2] * 1000 + dus > interval

\* button_pressed without the debounce interval.
button_pressed_nodebounce(lt, pin, low, now) == pin \in low

\* button_pressed(pin) when the pins in low read 0 and the clock reads now:
\* its return value (it then stores now in last_time[pin]).
button_pressed(lt, pin, low, now) ==
    pin \in low /\ U32Ge(U32Sub(now, lt[pin]), DEBOUNCE_MS + 1)

\* button_step that skips the enter routine of the page already current.
button_step_noreenter(h, pin, pg, low, now) ==
    IF button_pressed(h.last_time, pin, low, now)
    THEN [page |-> pg,
          last_time |-> [h.last_time EXCEPT ![pin] = now],
          entered |-> IF h.page = pg THEN h.entered
                      ELSE Append(h.entered, pg)]
    ELSE h

\* One if statement of handle_button_input, on the host record h (page,
\* last_time, entered).
button_step(h, pin, pg, low, now) ==
    IF button_pressed(h.last_time, pin, low, now)
    THEN [page |-> pg,
          last_time |-> [h.last_time EXCEPT ![pin] = now],
          entered |-> Append(h.entered, pg)]
    ELSE h

\* handle_button_input with the pages of X and Y exchanged.
handle_button_input_swapped(pg, lt, low, nows) ==
    button_step(button_step(button_step(button_step(
        [page |-> pg, last_time |-> lt, entered |-> << >>],
        BUTTON_A_PIN, PAGE_CLOCK, low, nows[1]),
        BUTTON_B_PIN, PAGE_QUOTE, low, nows[2]),
        BUTTON_X_PIN, PAGE_MANDELBROT, low, nows[3]),
        BUTTON_Y_PIN, PAGE_BALL, low, nows[4])

\* handle_button_input when the four button_pressed calls read the clock
\* as nows[1..4]: the page, the debounce table and the enter routines run,
\* in order.
handle_button_input(pg, lt, low, nows) ==
    button_step(button_step(button_step(button_step(
        [page |-> pg, last_time |-> lt, entered |-> << >>],
        BUTTON_A_PIN, PAGE_CLOCK, low, nows[1]),
        BUTTON_B_PIN, PAGE_QUOTE, low, nows[2]),
        BUTTON_X_PIN, PAGE_BALL, low, nows[3]),
        BUTTON_Y_PIN, PAGE_MANDELBROT, low, nows[4])

\* pg is among the pages of the sequence seq.
Ran(seq, pg) == \E i \in 1..Len(seq) : seq[i] = pg

\* page_ball_enter: bouncer_init(&ball_state, 12, 2, 2, bg, text, cyan).
page_ball_enter ==
    LET bn == bouncer_init(12, 2, 2, BLACK, RED, CYAN)
        pc == precompute_circle(bn.r, halfw, cached_r)
    IN  /\ b' = bn
        /\ halfw' = pc.halfw
        /\ cached_r' = pc.cached_r
        /\ disp' = bouncer_init_draws(bn)
        /\ args' = [radius |-> 12, vx |-> 2, vy |-> 2, bg |-> BLACK,
                    border |-> RED, color |-> CYAN]
        /\ color_log' = <<bn.color>>
        /\ calls' = calls + 1
        /\ frames' = 0

\* page_mandelbrot_enter: fill and border by the host, then
\* mandelbrot_init, which reads the clock.
page_mandelbrot_enter(now) ==
    /\ SetEngine(mandelbrot_init(now))
    /\ pal' = palette_init

(***************************************************************************)
(* clock.c                                                                 *)
(***************************************************************************)
\* sizeof(buf)
BUF_SIZE == 64
LF == "\n"
CR == "\r"
\* The terminating byte 0.
NUL == ""
\* Epochs are pairs <<epoch \div EpochBase, epoch % EpochBase>>.
EpochBase == 100000
\* 1700000000LL and 4102444800LL
EPOCH_MIN == <<17000, 0>>
EPOCH_MAX == <<41024, 44800>>
EpochLess(x, y) == x[1] < y[1] \/ (x[1] = y[1] /\ x[2] < y[2])

Digits == <<"0", "1", "2", "3", "4", "5", "6", "7", "8", "9">>
IsDigit(c) == \E i \in 1..10 : Digits[i] = c
DigitVal(c) == (CHOOSE i \in 1..10 : Digits[i] = c) - 1
\* The byte 0x0b (vertical tab).
VT == "\\v"
\* isspace(c), as sscanf tests it (LF and CR never reach the buffer).
IsSpace(c) == c \in {" ", "\t", "\f", VT, LF, CR}

\* The C string held in array a from index i on: the bytes before the
\* first NUL.
CString(a, i) ==
    LET nuls == {j \in i..(BUF_SIZE - 1) : a[j] = NUL}
        end  == IF nuls = {} THEN BUF_SIZE
                ELSE CHOOSE j \in nuls : \A l \in nuls : j <= l
    IN  [j \in 1..(end - i) |-> a[i + j - 1]]

\* The first position of s from i on that holds no white space.
RECURSIVE SkipSpace(_, _)
SkipSpace(s, i) ==
    IF i <= Len(s) /\ IsSpace(s[i]) THEN SkipSpace(s, i + 1) ELSE i

\* The decimal digits of s from position i on, accumulated onto acc.
RECURSIVE ScanDigits(_, _, _)
ScanDigits(s, i, acc) ==
    IF i <= Len(s) /\ IsDigit(s[i])
    THEN LET lo == acc[2] * 10 + DigitVal(s[i])
         IN  ScanDigits(s, i + 1,
                        <<acc[1] * 10 + lo \div EpochBase, lo % EpochBase>>)
    ELSE acc

\* sscanf(s, "T %lld", &epoch): whether it returns 1, and the epoch read
\* (neg: a minus sign preceded the digits).
sscanf_epoch(s) ==
    LET i   == SkipSpace(s, 2)
        sgn == i <= Len(s) /\ s[i] \in {"+", "-"}
        j   == IF sgn THEN i + 1 ELSE i
    IN  IF Len(s) >= 1 /\ s[1] = "T" /\ j <= Len(s) /\ IsDigit(s[j])
        THEN [ok |-> TRUE, neg |-> sgn /\ s[i] = "-",
              epoch |-> ScanDigits(s, j, <<0, 0>>)]
        ELSE [ok |-> FALSE, neg |-> FALSE, epoch |-> <<0, 0>>]

\* epoch <= 1700000000LL || epoch >= 4102444800LL
epoch_out_of_range(p) ==
    \/ p.neg
    \/ ~EpochLess(EPOCH_MIN, p.epoch)
    \/ ~EpochLess(p.epoch, EPOCH_MAX)

\* clock_set_epoch_utc(epoch) on sync record st when rtc_set_datetime
\* returns rtc_ok: the record it leaves; it returns rtc_ok.
clock_set_epoch_utc(st, epoch, rtc_ok) ==
    IF rtc_ok THEN [st EXCEPT !.rtc = epoch, !.g_time_valid = TRUE]
    ELSE st

\* printf of one response; set tells whether the RTC was set for it. The
\* record keeps the line received so far, and the RTC and the validity
\* flag at the response.
Say(st, msg, set) ==
    [st EXCEPT !.out = Append(@, [msg |-> msg, set |-> set,
                                  line |-> st.line, rtc |-> st.rtc,
                                  valid |-> st.g_time_valid])]

\* The newline branch of usb_time_sync_poll.
poll_newline(st, rtc_ok) ==
    LET st1 == [st EXCEPT !.buf[st.n] = NUL, !.n = 0,
                          !.stores = Append(@, [kind |-> "nul", at |-> st.n,
                                                n |-> 0])]
        p   == sscanf_epoch(CString(st1.buf, 0))
        st2 == clock_set_epoch_utc(st1, p.epoch, rtc_ok)
    IN  IF ~p.ok THEN Say(st1, "ERR fmt", FALSE)
        ELSE IF epoch_out_of_range(p) THEN Say(st1, "ERR range", FALSE)
        ELSE IF rtc_ok THEN Say(st2, "OK", st2.rtc = p.epoch)
        ELSE Say(st2, "ERR rtc", FALSE)

\* The last branch with the test n < sizeof(buf).
poll_store_full(st, c) ==
    IF st.n < BUF_SIZE
    THEN [st EXCEPT !.buf[st.n] = c, !.n = st.n + 1,
                    !.stores = Append(@, [kind |-> "byte", at |-> st.n,
                                          n |-> st.n + 1])]
    ELSE Say([st EXCEPT !.n = 0,
                        !.stores = Append(@, [kind |-> "overflow",
                                              at |-> st.n, n |-> 0])],
             "ERR overflow", FALSE)

\* The last branch of the loop body: store the byte, or report overflow.
poll_store(st, c) ==
    IF st.n + 1 < BUF_SIZE
    THEN [st EXCEPT !.buf[st.n] = c, !.n = st.n + 1,
                    !.stores = Append(@, [kind |-> "byte", at |-> st.n,
                                          n |-> st.n + 1])]
    ELSE Say([st EXCEPT !.n = 0,
                        !.stores = Append(@, [kind |-> "overflow",
                                              at |-> st.n, n |-> 0])],
             "ERR overflow", FALSE)

\* The body of the while loop of usb_time_sync_poll for byte c.
poll_char(st, c, rtc_ok) ==
    IF c = CR THEN st
    ELSE IF c = LF THEN [poll_newline(st, rtc_ok) EXCEPT !.line = << >>]
    ELSE poll_store([st EXCEPT !.line = Append(@, c)], c)

\* while ((c = getchar_timeout_us(0)) != PICO_ERROR_TIMEOUT) over the
\* pending bytes input, from byte i on.
RECURSIVE PollLoop(_, _, _, _)
PollLoop(st, input, i, rtc_ok) ==
    IF st.n >= 0 /\ i <= Len(input)
    THEN PollLoop(poll_char(st, input[i], rtc_ok), input, i + 1, rtc_ok)
    ELSE st

\* usb_time_sync_poll on sync record st with the bytes input pending.
usb_time_sync_poll(st, input, rtc_ok) ==
    PollLoop([st EXCEPT !.out = << >>, !.stores = << >>], input, 1, rtc_ok)

\* The time-sync state as one record.
Sync ==
    [buf |-> buf, n |-> sync_n, g_time_valid |-> g_time_valid, rtc |-> rtc,
     out |-> out, line |-> line, stores |-> stores]

\* k bytes c.
Rep(c, k) == [i \in 1..k |-> c]
\* "T 1800000000"
GoodCmd == <<"T", " ", "1", "8", "0", "0", "0", "0", "0", "0", "0", "0">>
\* The byte sequences a poll finds pending: nothing, whole lines (a good
\* command with and without carriage return, one before 2023, one after
\* 2100, one that is no command, one with a form feed for the space, an
\* empty one), a command in two parts,
\* a line that fills the buffer, and lines longer than the buffer.
InputSet ==
    { << >>,
      GoodCmd \o <<LF>>,
      GoodCmd \o <<CR, LF>>,
      <<"T", " ", "5", LF>>,
      <<"T", "4", "1", "0", "2", "4", "4", "4", "8", "0", "0", LF>>,
      <<"h", "i", LF>>,
      <<"T", "\f">> \o Tail(Tail(GoodCmd)) \o <<LF>>,
      <<LF>>,
      <<"T", " ", "1", "8">>,
      <<"0", "0", "0", "0", "0", "0", "0", "0", CR, LF,
        "T", " ", "-", "7", LF>>,
      Rep("x", BUF_SIZE - 1) \o <<LF>>,
      Rep("x", BUF_SIZE) \o <<LF>>,
      Rep("x", BUF_SIZE) \o GoodCmd \o <<LF>> }
\* At most this many polls are followed.
MaxPolls == 3

\* One call of usb_time_sync_poll.
UsbTimeSyncPoll ==
    /\ polls < MaxPolls
    /\ \E input \in InputSet, rtc_ok \in BOOLEAN :
          LET st == usb_time_sync_poll(Sync, input, rtc_ok)
          IN  /\ buf' = st.buf
              /\ sync_n' = st.n
              /\ g_time_valid' = st.g_time_valid
              /\ rtc' = st.rtc
              /\ out' = st.out
              /\ line' = st.line
              /\ stores' = st.stores
              /\ inp' = input
    /\ polls' = polls + 1
    /\ UNCHANGED <<ballVars, mandelVars, mc, hostVars, spanVars, clockVars>>

(***************************************************************************)
(* clock.c: local time; main.c: the clock page                             *)
(***************************************************************************)
TZ_OFFSET_HOURS == -5

\* (int8_t)v
S8(v) == ((v + 128) % 256) - 128

\* a % k of C for k > 0: the remainder has the sign of a.
CRem(a, k) == IF a >= 0 THEN a % k ELSE -((-a) % k)

\* A datetime_t nothing has been written to (it is never read).
Unwritten ==
    [year |-> -1, month |-> -1, day |-> -1, dotw |-> -1, hour |-> -1,
     min |-> -1, sec |-> -1]

\* apply_timezone_simple that forgets the weekday when the day changes.
apply_timezone_simple_nodotw(t, offset_hours) ==
    LET h == t.hour + offset_hours
    IN  IF h < 0
        THEN [t EXCEPT !.hour = S8(h + 24),
                       !.day = IF t.day > 1 THEN S8(t.day - 1) ELSE t.day]
        ELSE IF h >= 24
        THEN [t EXCEPT !.hour = S8(h - 24), !.day = S8(t.day + 1)]
        ELSE [t EXCEPT !.hour = S8(h)]

\* apply_timezone_simple(&t, offset_hours): the datetime_t it leaves.
apply_timezone_simple(t, offset_hours) ==
    LET h == t.hour + offset_hours
    IN  IF h < 0
        THEN [t EXCEPT !.hour = S8(h + 24),
                       !.dotw = S8(CRem(t.dotw + 6, 7)),
                       !.day = IF t.day > 1 THEN S8(t.day - 1) ELSE t.day]
        ELSE IF h >= 24
        THEN [t EXCEPT !.hour = S8(h - 24),
                       !.dotw = S8(CRem(t.dotw + 1, 7)),
                       !.day = S8(t.day + 1)]
        ELSE [t EXCEPT !.hour = S8(h)]

\* clock_get_local_datetime without the test of g_time_valid.
clock_get_local_datetime_novalid(valid, reading, rtc_ok, o) ==
    IF ~rtc_ok THEN [ret |-> FALSE, out |-> o]
    ELSE [ret |-> TRUE, out |-> apply_timezone_simple(reading, TZ_OFFSET_HOURS)]

\* clock_get_local_datetime(out) when the flag is valid, rtc_get_datetime
\* returns rtc_ok with the given reading, and *out holds o: the return
\* value and *out afterwards.
clock_get_local_datetime(valid, reading, rtc_ok, o) ==
    IF ~valid THEN [ret |-> FALSE, out |-> o]
    ELSE IF ~rtc_ok THEN [ret |-> FALSE, out |-> o]
    ELSE [ret |-> TRUE, out |-> apply_timezone_simple(reading, TZ_OFFSET_HOURS)]

\* draw_clock_display(t, txt, bg): the date line and the time line.
draw_clock_display(t) ==
    << [op |-> "date", dotw |-> t.dotw, month |-> t.month, day |-> t.day,
        year |-> t.year],
       [op |-> "time", hour |-> t.hour, min |-> t.min, sec |-> t.sec] >>

\* page_clock_update on the result g of its clock_get_local_datetime call:
\* the drawing calls it makes.
page_clock_update(g) == IF g.ret THEN draw_clock_display(g.out) ELSE << >>

\* page_clock_enter likewise: fill, border, then the clock if there is one.
page_clock_enter(g) ==
    << [op |-> "fill"], [op |-> "border"] >> \o page_clock_update(g)

\* Readings of the RTC: a valid date, at an hour on either side of the
\* offset.
RtcReadings ==
    { [year |-> 2027, month |-> 3, day |-> 1, dotw |-> 0, hour |-> h,
       min |-> 30, sec |-> 15] : h \in {3, 12} }

\* Every hour and weekday, the first, second and last day of a month, the
\* first and last month of a year.
TzInputs ==
    { [year |-> 2027, month |-> mo, day |-> d, dotw |-> w, hour |-> h,
       min |-> 30, sec |-> 15] :
         mo \in {1, 12}, d \in {1, 2, 31}, w \in 0..6, h \in 0..23 }

\* A datetime_t read from the RTC, apply_timezone_simple not yet called.
InitTz ==
    /\ tz_in \in TzInputs
    /\ tz_out = Unwritten
    /\ got = [ret |-> FALSE, out |-> Unwritten]
    /\ clock_drawn = << >>

\* apply_timezone_simple(&t, TZ_OFFSET_HOURS), as clock_get_local_datetime
\* calls it.
ApplyTimezone ==
    /\ tz_out = Unwritten
    /\ tz_out' = apply_timezone_simple(tz_in, TZ_OFFSET_HOURS)
    /\ UNCHANGED <<tz_in, got, clock_drawn>>
    /\ UNCHANGED <<ballVars, mandelVars, mc, hostVars, syncVars, spanVars>>

\* The clock_get_local_datetime call of a clock page routine, on a
\* datetime_t of the caller's stack.
GetLocal(g, reading) ==
    /\ got' = g
    /\ IF g.ret THEN tz_in' = reading /\ tz_out' = g.out
       ELSE UNCHANGED <<tz_in, tz_out>>

\* page_clock_update with any reading of the RTC.
PageClockUpdate ==
    /\ \E reading \in RtcReadings, rtc_ok \in BOOLEAN :
          LET g == clock_get_local_datetime(g_time_valid, reading, rtc_ok,
                                            Unwritten)
          IN  GetLocal(g, reading) /\ clock_drawn' = page_clock_update(g)
    /\ UNCHANGED <<ballVars, mandelVars, mc, hostVars, syncVars, spanVars>>

\* page_clock_enter with any reading of the RTC.
PageClockEnter ==
    /\ \E reading \in RtcReadings, rtc_ok \in BOOLEAN :
          LET g == clock_get_local_datetime(g_time_valid, reading, rtc_ok,
                                            Unwritten)
          IN  GetLocal(g, reading) /\ clock_drawn' = page_clock_enter(g)
    /\ UNCHANGED <<ballVars, mandelVars, mc, hostVars, syncVars, spanVars>>

(***************************************************************************)
(* main.c: the steps of widget_run's loop                                  *)
(***************************************************************************)
\* The pins in the order handle_button_input tests them.
PinOrder == <<BUTTON_A_PIN, BUTTON_B_PIN, BUTTON_X_PIN, BUTTON_Y_PIN>>
\* The sets of buttons held down at a poll.
LowSets ==
    {{}, {BUTTON_A_PIN}, {BUTTON_B_PIN}, {BUTTON_X_PIN}, {BUTTON_Y_PIN},
     {BUTTON_X_PIN, BUTTON_Y_PIN}}
\* Microseconds a loop pass takes (sleep_ms(1) and the drawing): too few
\* for the next frame, just enough for it, and the debounce time.
PassUsSet == {16400, ANIM_UPDATE_INTERVAL_US + 1, (DEBOUNCE_MS + 1) * 1000}
\* The time since boot when widget_run starts.
BootClocks == {AbsTime(150, 0), AbsTime(500, 0)}
\* The clock readings of one handle_button_input, from reading c on: those
\* of the four button_pressed calls and that of mandelbrot_init. The clock
\* stands still, or moves on 1 ms between the calls for X and Y and 1 ms
\* between the call for Y and mandelbrot_init.
NowsSet(c) ==
    LET c1 == TimeAddUs(c, 1000)
        c2 == TimeAddUs(c, 2000)
    IN  {<<c, c, c, c, c>>, <<c, c, c, c1, c2>>}
\* At most this many loop passes are followed.
MaxLoops == 2

\* The clock page routine run when handle_button_input has entered the
\* clock page (enter) or handle_display_updates found the clock update
\* due, with any reading of the RTC; else nothing is drawn.
ClockPage(runs, enter) ==
    IF runs
    THEN \E reading \in RtcReadings, rtc_ok \in BOOLEAN :
            LET g == clock_get_local_datetime(g_time_valid, reading, rtc_ok,
                                              Unwritten)
            IN  /\ GetLocal(g, reading)
                /\ clock_drawn' = IF enter THEN page_clock_enter(g)
                                  ELSE page_clock_update(g)
    ELSE UNCHANGED clockVars

\* The bytes pending at a poll of the main loop: the time command comes
\* during the first pass or never.
HostInputs(pass) ==
    IF pass = 0 THEN {<< >>, GoodCmd \o <<LF>>} ELSE {<< >>}

\* usb_time_sync_poll as a step of widget_run's loop.
PollStep ==
    /\ step = "poll"
    /\ \E input \in HostInputs(loops), rtc_ok \in BOOLEAN :
          LET st == usb_time_sync_poll(Sync, input, rtc_ok)
          IN  /\ buf' = st.buf
              /\ sync_n' = st.n
              /\ g_time_valid' = st.g_time_valid
              /\ rtc' = st.rtc
              /\ out' = st.out
              /\ line' = st.line
              /\ stores' = st.stores
              /\ inp' = input
    /\ polls' = polls + 1
    /\ step' = "buttons"
    /\ UNCHANGED <<page, last_time, clock, last_clock, last_anim, entered,
                   ticked, loops, pins_low, read_at>>
    /\ UNCHANGED <<ballVars, mandelVars, mc, spanVars, clockVars>>

\* handle_button_input as a step of widget_run's loop.
HandleButtonInput ==
    /\ step = "buttons"
    /\ \E low \in LowSets, ts \in NowsSet(clock) :
          LET nows == [k \in 1..5 |-> to_ms_since_boot(ts[k])]
              h    == handle_button_input(page, last_time, low, nows)
          IN  \* the clock moves on only while the enter routine of an
              \* animation page draws
              /\ (~Ran(h.entered, PAGE_BALL)
                    /\ ~Ran(h.entered, PAGE_MANDELBROT)) => ts[5] = clock
              /\ pins_low' = low
              /\ read_at' = [pin \in Pins |->
                               nows[CHOOSE k \in 1..4 : PinOrder[k] = pin]]
              /\ clock' = ts[5]
              /\ page' = h.page
              /\ last_time' = h.last_time
              /\ entered' = h.entered
              /\ IF Ran(h.entered, PAGE_BALL) THEN page_ball_enter
                 ELSE UNCHANGED ballVars
              /\ IF Ran(h.entered, PAGE_MANDELBROT)
                 THEN page_mandelbrot_enter(nows[5])
                 ELSE UNCHANGED mandelVars
              /\ ClockPage(Ran(h.entered, PAGE_CLOCK), TRUE)
    /\ step' = "display"
    /\ UNCHANGED <<last_clock, last_anim, ticked, loops, mc>>
    /\ UNCHANGED <<syncVars, spanVars>>

\* page_ball_update: bouncer_tick(&ball_state).
page_ball_update ==
    LET t == bouncer_tick(b)
    IN  /\ b' = t.b
        /\ disp' = tick_draws(t)
        /\ color_log' = IF t.hit_v /\ t.hit_h /\ Len(color_log) < MaxLog
                         THEN Append(color_log, t.b.color)
                         ELSE color_log
        /\ frames' = frames + 1
        /\ UNCHANGED <<halfw, cached_r, calls, args>>

\* page_mandelbrot_update: mandelbrot_tick(&mandel_state, 32); a clock
\* reading of the tick returns the reading of this loop pass.
page_mandelbrot_update ==
    /\ SetEngine(mandelbrot_tick([Engine EXCEPT
                                     !.now_ms = to_ms_since_boot(clock)],
                                 HOST_LINES, <<0>>))
    /\ UNCHANGED pal

\* The tests of handle_display_updates.
clock_update_due(pg, now, last) ==
    pg = PAGE_CLOCK /\ diff_us_above(last, now, CLOCK_UPDATE_INTERVAL_US)

\* anim_update_due without the test of the page.
anim_update_due_anypage(pg, now, last) ==
    diff_us_above(last, now, ANIM_UPDATE_INTERVAL_US)

anim_update_due(pg, now, last) ==
    /\ pg = PAGE_BALL \/ pg = PAGE_MANDELBROT
    /\ diff_us_above(last, now, ANIM_UPDATE_INTERVAL_US)

\* handle_display_updates as a step of widget_run's loop.
HandleDisplayUpdates ==
    /\ step = "display"
    /\ last_clock' = IF clock_update_due(page, clock, last_clock)
                     THEN clock ELSE last_clock
    /\ last_anim' = IF anim_update_due(page, clock, last_anim)
                    THEN clock ELSE last_anim
    /\ ticked' = (IF clock_update_due(page, clock, last_clock)
                  THEN <<PAGE_CLOCK>> ELSE << >>)
                 \o (IF anim_update_due(page, clock, last_anim)
                     THEN <<IF page = PAGE_BALL THEN PAGE_BALL
                            ELSE PAGE_MANDELBROT>>
                     ELSE << >>)
    /\ IF anim_update_due(page, clock, last_anim) /\ page = PAGE_BALL
       THEN page_ball_update ELSE UNCHANGED ballVars
    /\ IF anim_update_due(page, clock, last_anim) /\ page # PAGE_BALL
       THEN page_mandelbrot_update ELSE UNCHANGED mandelVars
    /\ ClockPage(clock_update_due(page, clock, last_clock), FALSE)
    /\ step' = "sleep"
    /\ UNCHANGED <<page, last_time, clock, entered, loops, pins_low, read_at>>
    /\ UNCHANGED <<mc, syncVars, spanVars>>

\* sleep_ms(1) at the end of a loop pass: the clock has moved on when the
\* next pass starts.
SleepMs ==
    /\ step = "sleep"
    /\ loops < MaxLoops
    /\ \E dt \in PassUsSet : clock' = TimeAddUs(clock, dt)
    /\ loops' = loops + 1
    /\ step' = "poll"
    /\ UNCHANGED <<page, last_time, last_clock, last_anim, entered, ticked>>
    /\ pins_low' = {}
    /\ read_at' = [pin \in Pins |-> U32(0)]
    /\ UNCHANGED <<ballVars, mandelVars, mc, syncVars, spanVars, clockVars>>

\* widget_init, then the two readings that start widget_run.
InitHost ==
    /\ page = PAGE_CLOCK
    /\ last_time = [pin \in Pins |-> U32(0)]
    /\ clock \in BootClocks
    /\ last_clock = clock
    /\ last_anim = clock
    /\ step = "poll"
    /\ entered = << >>
    /\ ticked = << >>
    /\ loops = 0
    /\ pins_low = {}
    /\ read_at = [pin \in Pins |-> U32(0)]

(***************************************************************************)
(* Parts of the state a specification leaves as they are at boot.          *)
(***************************************************************************)
BootBall ==
    /\ b = [r |-> 0, vx |-> 0, vy |-> 0, bg |-> 0, border |-> 0,
            color |-> 0, cx |-> 0, cy |-> 0]
    /\ halfw = BootHalfw
    /\ cached_r = -1
    /\ disp = << >>
    /\ color_log = << >>
    /\ calls = 0
    /\ frames = 0
    /\ args = [radius |-> 0, vx |-> 0, vy |-> 0, bg |-> 0, border |-> 0,
               color |-> 0]

BootMandel ==
    /\ m = [cx |-> 0, cy |-> 0, scale |-> 0, max_iter |-> 0, y_next |-> 0]
    /\ last_zoom_ms = U32(0)
    /\ pal = [i \in 0..255 |-> 0]
    /\ now_ms = U32(0)
    /\ passes = 0
    /\ zoom_steps = 0
    /\ rows = << >>

BootColor == mc = IdleFrame

BootHost ==
    /\ page = PAGE_CLOCK
    /\ last_time = [pin \in Pins |-> U32(0)]
    /\ clock = AbsTime(0, 0)
    /\ last_clock = AbsTime(0, 0)
    /\ last_anim = AbsTime(0, 0)
    /\ step = "buttons"
    /\ entered = << >>
    /\ ticked = << >>
    /\ loops = 0
    /\ pins_low = {}
    /\ read_at = [pin \in Pins |-> U32(0)]

BootSync ==
    /\ buf = [i \in 0..(BUF_SIZE - 1) |-> NUL]
    /\ sync_n = 0
    /\ g_time_valid = FALSE
    /\ rtc = <<0, 0>>
    /\ out = << >>
    /\ inp = << >>
    /\ line = << >>
    /\ polls = 0
    /\ stores = << >>

BootSpans ==
    /\ span_in = [cx |-> 0, cy |-> 0, r |-> -1]
    /\ spans = << >>

BootLocal ==
    /\ tz_in = Unwritten
    /\ tz_out = Unwritten
    /\ got = [ret |-> FALSE, out |-> Unwritten]
    /\ clock_drawn = << >>

(***************************************************************************)
(* Specifications                                                          *)
(***************************************************************************)
\* The ball engine: any bouncer_init, then any number of ticks.
InitSpecBall == InitBall /\ BootMandel /\ BootColor /\ BootHost /\ BootSync /\ BootSpans /\ BootLocal
SpecBall == InitSpecBall /\ [][BouncerTick]_vars

\* The ball engine with velocities that keep every sum within int.
InitSpecBounce == InitBounce /\ BootMandel /\ BootColor /\ BootHost /\ BootSync /\ BootSpans /\ BootLocal
SpecBounce == InitSpecBounce /\ [][BouncerTick]_vars

\* The ball page of the host: page_ball_enter, then page_ball_update once
\* per frame; the main loop never stops calling the page's update.
InitSpecBallE2E == InitBallE2E /\ BootMandel /\ BootColor /\ BootHost /\ BootSync /\ BootSpans /\ BootLocal
SpecBallE2E ==
    InitSpecBallE2E /\ [][PageBallUpdate]_vars /\ WF_vars(PageBallUpdate)

\* The ball engine from any bouncer_init through its first ticks.
SpecPaint == InitSpecBall /\ [][PaintTick]_vars

\* The ball engine with bouncer_init called again between ticks.
NextCache == BouncerInit \/ CountedTick
SpecCache == InitSpecBall /\ [][NextCache]_vars

\* draw_circle_spans on the table of any radius, at any centre.
InitSpecSpans ==
    InitSpans /\ BootMandel /\ BootColor /\ BootHost /\ BootSync /\ BootLocal
SpecSpans == InitSpecSpans /\ [][DrawCircleSpans]_vars

\* The geometry cache: precompute_circle calls from boot on.
InitSpecCircle == BootBall /\ BootMandel /\ BootColor /\ BootHost /\ BootSync /\ BootSpans /\ BootLocal
SpecCircle == InitSpecCircle /\ [][PrecomputeCircle]_vars

\* The fractal engine: mandelbrot_init, then ticks with any budget and any
\* monotonic clock.
InitSpecMandel == InitMandel /\ BootBall /\ BootColor /\ BootHost /\ BootSync /\ BootSpans /\ BootLocal
SpecMandel == InitSpecMandel /\ [][MandelbrotTick]_vars

\* The fractal engine zooming at every pass.
SpecZoom == InitSpecMandel /\ [][MandelbrotPass]_vars

\* mandel_color returns its colour (ret = -1 until then).
ColorReturn ==
    /\ mc.pc \in {"black", "escaped", "exhausted"}
    /\ mc.ret = -1
    /\ mc' = [mc EXCEPT !.ret = mandel_color_return(mc, pal)]
    /\ UNCHANGED <<ballVars, mandelVars, hostVars, syncVars, spanVars, clockVars>>

NextColor == ColorTest \/ ColorLoop \/ ColorReturn

\* render_scanline goes on to another pixel of the frame.
ColorEnter ==
    /\ mc.ret # -1
    /\ \E x \in XSet, sy \in 0..(SAMPLE_H - 1) :
          LET c == pixel_to_complex(m, x, BORDER + sy * 2)
          IN  mc' = mandel_color_entry(c[1], c[2], m.max_iter)
    /\ UNCHANGED <<ballVars, mandelVars, hostVars, syncVars, spanVars, clockVars>>

\* mandelbrot_init is called again (the page is entered again), between
\* two mandel_color calls.
MandelbrotInit ==
    /\ mc.ret # -1
    /\ \E t \in InitClocks : SetEngine(mandelbrot_init(t))
    /\ pal' = palette_init
    /\ UNCHANGED <<mc, ballVars, hostVars, syncVars, spanVars, clockVars>>

NextFrame == NextColor \/ ColorEnter \/ MandelbrotInit

\* The mandel_color calls of the first frame after mandelbrot_init.
InitSpecFrame == InitMandel /\ BootBall /\ InitPixel /\ BootHost /\ BootSync /\ BootSpans /\ BootLocal
SpecFrame == InitSpecFrame /\ [][NextFrame]_vars

\* Sample pixels <<x, sy>> of a frame: two corners, the centre and a pixel
\* of the last row.
DeepPixels == {<<1, 0>>, <<160, SAMPLE_H \div 2>>, <<318, 0>>,
               <<60, SAMPLE_H - 1>>}
\* Passes of the zoom the frames are taken from: max_iter reaches its cap
\* of 140 at the 76th.
MaxDeepSteps == 78

\* mandel_color is entered for a sampled pixel of the first frame.
InitDeepPixel ==
    \E px \in DeepPixels :
        LET c == pixel_to_complex(m, px[1], BORDER + px[2] * 2)
        IN  mc = mandel_color_entry(c[1], c[2], m.max_iter)

\* render_scanline goes on to another sampled pixel of the current frame.
DeepEnter ==
    /\ mc.ret # -1
    /\ \E px \in DeepPixels :
          LET c == pixel_to_complex(m, px[1], BORDER + px[2] * 2)
          IN  mc' = mandel_color_entry(c[1], c[2], m.max_iter)
    /\ UNCHANGED <<ballVars, mandelVars, hostVars, syncVars, spanVars, clockVars>>

\* Between two mandel_color calls the rest of the pass is rendered and
\* mandelbrot_tick takes its zoom step.
DeepPass ==
    /\ mc.ret # -1
    /\ zoom_steps < MaxDeepSteps
    /\ SetEngine(mandelbrot_tick(Engine, SAMPLE_H, <<ZOOM_INTERVAL_MS>>))
    /\ UNCHANGED <<pal, mc, ballVars, hostVars, syncVars, spanVars, clockVars>>

NextDeep == NextColor \/ DeepEnter \/ DeepPass

\* The mandel_color calls of the frames of the zoom, from mandelbrot_init
\* until max_iter has reached its cap.
InitSpecDeep == InitMandel /\ BootBall /\ InitDeepPixel /\ BootHost /\ BootSync /\ BootSpans /\ BootLocal
SpecDeep == InitSpecDeep /\ [][NextDeep]_vars

\* The host: widget_init, then widget_run's loop over usb_time_sync_poll,
\* handle_button_input, handle_display_updates and sleep_ms.
NextHost == PollStep \/ HandleButtonInput \/ HandleDisplayUpdates \/ SleepMs
InitSpecHost ==
    InitHost /\ BootBall /\ BootMandel /\ BootColor /\ BootSync /\ BootSpans /\ BootLocal
SpecHost == InitSpecHost /\ [][NextHost]_vars

\* The time-sync protocol: usb_time_sync_poll calls from boot on, with any
\* bytes pending.
InitSpecSync ==
    BootSync /\ BootBall /\ BootMandel /\ BootColor /\ BootHost /\ BootSpans /\ BootLocal
SpecSync == InitSpecSync /\ [][UsbTimeSyncPoll]_vars

\* apply_timezone_simple on any reading of the RTC.
InitSpecTz ==
    InitTz /\ BootBall /\ BootMandel /\ BootColor /\ BootHost /\ BootSync
          /\ BootSpans
SpecTz == InitSpecTz /\ [][ApplyTimezone]_vars

\* The clock: usb_time_sync_poll calls and clock page routines in any
\* order, from boot on.
NextClock == UsbTimeSyncPoll \/ PageClockUpdate \/ PageClockEnter
SpecClock == InitSpecSync /\ [][NextClock]_vars

\* Display columns whose pixels lie outside the circle |c| = 2 in some row
\* of the first frames (render_scanline walks 1..318; the view is centred
\* left of the origin, so these are the leftmost columns).
EscapeXSet == 1..88
\* Passes of the zoom before the frame the pixel is taken from.
MaxEscapeSteps == 2

\* Before a frame is rendered a whole pass goes by and mandelbrot_tick
\* takes its zoom step.
EscapePass ==
    /\ mc.pc = "idle"
    /\ zoom_steps < MaxEscapeSteps
    /\ SetEngine(mandelbrot_tick(Engine, SAMPLE_H, <<ZOOM_INTERVAL_MS>>))
    /\ UNCHANGED <<pal, mc, ballVars, hostVars, syncVars, spanVars, clockVars>>

\* render_scanline calls mandel_color for column x of sample row sy of the
\* current frame.
EscapeEnter ==
    /\ mc.pc = "idle"
    /\ \E x \in EscapeXSet, sy \in 0..(SAMPLE_H - 1) :
          LET c == pixel_to_complex(m, x, BORDER + sy * 2)
          IN  mc' = mandel_color_entry(c[1], c[2], m.max_iter)
    /\ UNCHANGED <<ballVars, mandelVars, hostVars, syncVars, spanVars, clockVars>>

NextEscape == EscapePass \/ EscapeEnter \/ NextColor

\* One call of mandel_color on a pixel of the left of one of the first
\* frames after mandelbrot_init.
InitSpecEscape == InitMandel /\ BootBall /\ BootColor /\ BootHost /\ BootSync /\ BootSpans /\ BootLocal
SpecEscape == InitSpecEscape /\ [][NextEscape]_vars

(***************************************************************************)
(* Properties of the ball engine                                           *)
(***************************************************************************)
\* C1: after bouncer_init (radius clamped to at most 32, any velocity) and
\* after every bouncer_tick, 1 + r <= cx <= 318 - r and
\* 1 + r <= cy <= 238 - r.
C1_Containment ==
    /\ b.r <= 32
    /\ 1 + b.r <= b.cx /\ b.cx <= 318 - b.r
    /\ 1 + b.r <= b.cy /\ b.cy <= 238 - b.r

\* A tick has put the largest ball on the left and bottom limits at once.
C1_Witness ==
    /\ Len(disp) = 2
    /\ b.r = 32 /\ b.cx = 33 /\ b.cy = 206

\* C7: from bouncer_init(12, 2, 2) the ball eventually reaches cx = 13; in
\* the tick in which cx becomes 13 the x-velocity changes sign, to +2; and
\* from then on cx >= 13.
C7_EndToEnd ==
    /\ <>(b.cx = 13)
    /\ [][(b.cx # 13 /\ b'.cx = 13) => (b.vx = -2 /\ b'.vx = 2)]_vars
    /\ [][(b.cx >= 13) => (b'.cx >= 13)]_vars
    /\ [](b.cx >= 13)

\* The radius-12 ball stands on the left limit, moving right again.
C7_Witness ==
    /\ Len(disp) = 2
    /\ b.r = 12 /\ b.cx = 13 /\ b.vx = 2 /\ disp[1].cx = 14

\* The successor of colour c in the cycle red -> green -> blue -> yellow ->
\* magenta -> cyan -> white -> red; red for any other colour.
CycleNext(c) ==
    CASE c = 63488 -> 2016
      [] c = 2016  -> 31
      [] c = 31    -> 65504
      [] c = 65504 -> 63519
      [] c = 63519 -> 2047
      [] c = 2047  -> 65535
      [] OTHER     -> 63488

\* C8: every corner impact replaces the fill colour by its successor in the
\* cycle (red yields green, white yields red), a colour outside the
\* palette by red, and seven successive corner impacts starting from a
\* palette colour return to it.
C8_CornerCycle ==
    /\ \A i \in 1..(Len(color_log) - 1) :
          color_log[i + 1] = CycleNext(color_log[i])
    /\ \A i \in 1..(Len(color_log) - 7) :
          color_log[i] \in {63488, 2016, 31, 65504, 63519, 2047, 65535}
              => color_log[i + 7] = color_log[i]
    /\ Len(color_log) < MaxLog => b.color = color_log[Len(color_log)]

\* Thirteen corner impacts from a colour outside the palette: red first,
\* then twice to white.
C8_Witness ==
    /\ Len(color_log) = 14
    /\ color_log[1] = 4660 /\ color_log[2] = 63488 /\ color_log[3] = 2016
    /\ color_log[8] = 65535 /\ color_log[9] = 63488

\* C9: after precompute_circle(r), r in 0..32: halfw[0] = r, halfw[r] = 0
\* and halfw[dy + 1] <= halfw[dy] for 0 <= dy < r.
C9_HalfWidths ==
    cached_r >= 0 =>
        /\ cached_r <= 32
        /\ halfw[0] = cached_r
        /\ halfw[cached_r] = 0
        /\ \A dy \in 0..(cached_r - 1) : halfw[dy + 1] <= halfw[dy]

\* The table of radius 5 computed over the table of radius 32, whose
\* entries above 5 remain.
C9_Witness ==
    /\ calls = 2 /\ cached_r = 5
    /\ halfw[3] = 4 /\ halfw[6] = 31

(***************************************************************************)
(* Properties of the fractal engine                                        *)
(***************************************************************************)
\* The scale and iteration limit in force right after row i of the last
\* tick.
AfterRow(i) ==
    IF i < Len(rows)
    THEN [scale |-> rows[i + 1].scale, max_iter |-> rows[i + 1].max_iter]
    ELSE [scale |-> m.scale, max_iter |-> m.max_iter]

\* C2: after mandelbrot_init and after every mandelbrot_tick, y_next is in
\* 0..118; each rendered row advances it by one, and it is reset to 0
\* exactly when it reaches 119.
C2_RowCursor ==
    /\ m.y_next \in 0..118
    /\ \A i \in 1..Len(rows) :
          LET nxt == IF i < Len(rows) THEN rows[i + 1].sy ELSE m.y_next
          IN  /\ rows[i].sy \in 0..118
              /\ rows[i].sy + 1 < 119 => nxt = rows[i].sy + 1 /\ ~rows[i].wrap
              /\ rows[i].sy + 1 = 119 => nxt = 0 /\ rows[i].wrap

\* One tick of 120 rows from row 0: through row 118, the reset, and row 0
\* again.
C2_Witness ==
    /\ Len(rows) = 120
    /\ rows[119].sy = 118 /\ rows[119].wrap /\ rows[120].sy = 0
    /\ m.y_next = 1

\* C3 as stated: whenever a pass completes with at least 10 ms since the
\* previous zoom step, scale afterwards is strictly smaller than before,
\* max_iter does not decrease and does not exceed 140.
C3_Original ==
    \A i \in 1..Len(rows) :
        (rows[i].wrap /\ U32Ge(rows[i].diff, 10)) =>
            /\ AfterRow(i).scale < rows[i].scale
            /\ AfterRow(i).max_iter >= rows[i].max_iter
            /\ AfterRow(i).max_iter <= 140

\* C3 amended: whenever a pass completes with at least 10 ms since the
\* previous zoom step, scale afterwards is strictly smaller than before if
\* it was positive and stays 0 if it was 0; max_iter does not decrease and
\* does not exceed 140.
C3_ZoomMonotone ==
    \A i \in 1..Len(rows) :
        (rows[i].wrap /\ U32Ge(rows[i].diff, 10)) =>
            /\ rows[i].scale > 0 => AfterRow(i).scale < rows[i].scale
            /\ rows[i].scale = 0 => AfterRow(i).scale = 0
            /\ AfterRow(i).max_iter >= rows[i].max_iter
            /\ AfterRow(i).max_iter <= 140

\* The zoom step that takes scale from 1 to 0.
C3_Witness ==
    /\ Len(rows) = 119
    /\ rows[119].zoom /\ rows[119].scale = 1 /\ m.scale = 0

\* C4 as stated: scale > 0 in every reachable state, and scale never
\* increases from one state to the next.
C4_Original ==
    /\ [](m.scale > 0)
    /\ [][m'.scale <= m.scale]_vars

\* C4 amended: scale >= 0 in every reachable state and never increases
\* from one state to the next; it is positive exactly until the 740th zoom
\* step.
C4_ScaleInvariant ==
    /\ [](m.scale >= 0 /\ (m.scale > 0 <=> zoom_steps < 740))
    /\ [][m'.scale <= m.scale]_vars

\* The state after the 740th zoom step.
C4_Witness == zoom_steps = 740 /\ m.scale = 0 /\ m.y_next = 0

\* C5: 64 <= max_iter <= 140 in every reachable state; each zoom step
\* raises max_iter by exactly 1 while it is below 140 and leaves it at 140
\* afterwards; nothing else changes it.
C5_IterLimit ==
    /\ 64 <= m.max_iter /\ m.max_iter <= 140
    /\ m.max_iter = IF 64 + zoom_steps < 140 THEN 64 + zoom_steps ELSE 140
    /\ \A i \in 1..Len(rows) :
          AfterRow(i).max_iter =
              IF ~rows[i].zoom THEN rows[i].max_iter
              ELSE IF rows[i].max_iter < 140 THEN rows[i].max_iter + 1
              ELSE 140

\* A zoom step taken at the cap.
C5_Witness ==
    /\ zoom_steps = 77 /\ Len(rows) = 119
    /\ rows[119].zoom /\ rows[119].max_iter = 140 /\ m.max_iter = 140

\* C6: from mandelbrot_init, before the 119th row max_iter = 64 and scale
\* is the initial 0.010 (2684354); after exactly 119 rows, the clock at the
\* wrap at least 10 ms past its value at init, max_iter = 65, y_next = 0 and
\* scale = fx_mul(2684354, fx_from_double(0.985)) = 2644088.
C6_EndToEnd ==
    /\ passes = 0 =>
          /\ m.max_iter = 64 /\ m.scale = 2684354
          /\ \A i \in 1..Len(rows) :
                rows[i].max_iter = 64 /\ rows[i].scale = 2684354
    /\ (passes = 1 /\ m.y_next = 0 /\ U32Ge(rows[Len(rows)].diff, 10)) =>
          /\ rows[Len(rows)].sy = 118
          /\ rows[Len(rows)].max_iter = 64
          /\ rows[Len(rows)].scale = 2684354
          /\ m.max_iter = 65
          /\ m.scale = 2644088

\* The first pass ends 10 ms after an init 6 ms before the millisecond
\* counter wraps: the zoom step is taken at reading 4.
C6_Witness ==
    /\ passes = 1 /\ m.y_next = 0
    /\ last_zoom_ms = <<0, 4>>
    /\ m.max_iter = 65 /\ m.scale = 2644088

(***************************************************************************)
(* Properties of mandel_color                                              *)
(***************************************************************************)
\* cr^2 + ci^2 exactly, as top * 2^44 + rest with 0 <= rest < 2^44; low is
\* whether rest > 0.  (cr and ci are in Q4.28, so 4 is 2^14 * 2^44.)
NormSq(cr, ci) ==
    LET L  == 2048
        a0 == cr % L   a1 == (cr \div L) % L   a2 == cr \div (L * L)
        b0 == ci % L   b1 == (ci \div L) % L   b2 == ci \div (L * L)
        c0 == a0 * a0 + b0 * b0
        c1 == 2 * a1 * a0 + 2 * b1 * b0
        c2 == 2 * a2 * a0 + a1 * a1 + 2 * b2 * b0 + b1 * b1
        c3 == 2 * a2 * a1 + 2 * b2 * b1
        c4 == a2 * a2 + b2 * b2
        d1 == c1 + c0 \div L
        d2 == c2 + d1 \div L
        d3 == c3 + d2 \div L
    IN  [top |-> c4 + d3 \div L,
         low |-> c0 % L # 0 \/ d1 % L # 0 \/ d2 % L # 0 \/ d3 % L # 0]

\* cr^2 + ci^2 > 4
OutsideRadius2(cr, ci) ==
    LET n == NormSq(cr, ci) IN n.top > 16384 \/ (n.top = 16384 /\ n.low)

\* C10: every point with cr^2 + ci^2 > 4 that reaches the loop of
\* mandel_color (max_iter >= 2) leaves it through the escape test
\* |z|^2 > 4 with it = 1: with such a point the loop is never in its second
\* round, never exhausts max_iter, and has it = 1 when it has escaped.
C10_EscapeAtOne ==
    (/\ mc.pc \in {"loop", "escaped", "exhausted"}
     /\ mc.max_iter >= 2
     /\ OutsideRadius2(mc.cr, mc.ci)) =>
        /\ mc.it <= 1
        /\ mc.pc # "exhausted"
        /\ mc.pc = "escaped" => mc.it = 1

\* Column 1 of the first sample row of the frame after the first zoom
\* step (|c|^2 is about 6.4) has left the loop by the escape test at
\* it = 1.
C10_Witness ==
    /\ zoom_steps = 1
    /\ mc.pc = "escaped" /\ mc.it = 1 /\ mc.max_iter = MAX_ITER_INIT + 1
    /\ mc.cr = pixel_to_complex(m, 1, BORDER)[1]
    /\ mc.ci = pixel_to_complex(m, 1, BORDER)[2]
    /\ OutsideRadius2(mc.cr, mc.ci)

\* At most this many iterations of z <- z^2 + c are tried by brute force.
BruteCap == 200

\* C11: a point for which in_cardioid_or_bulb returns true never reaches
\* |z|^2 > 4 when z <- z^2 + c is iterated from z = 0 up to a large cap
\* (the loop of mandel_color run without the short-circuit).
C11_Soundness ==
    mc.pc = "black" =>
        mandel_color_while([mc EXCEPT !.pc = "loop",
                                      !.max_iter = BruteCap]).pc = "exhausted"

\* C12: after mandelbrot_init pal[0] is color565(0, 0, 0), calling
\* mandelbrot_init again leaves the same 256 entries, and every pixel
\* classified in-set (short-circuit true, or loop ended with
\* it = max_iter) is returned as color565(0, 0, 0).
C12_BlackInSet ==
    /\ [](pal[0] = color565(0, 0, 0))
    /\ [][pal' = pal]_vars
    /\ []((mc.ret # -1 /\ (mc.pc = "black" \/ mc.it = mc.max_iter))
            => mc.ret = color565(0, 0, 0))

\* Under the palette mandelbrot_init left, a pixel that ran through all 64
\* iterations has been returned.
C12_Witness ==
    /\ mc.ret # -1 /\ mc.pc = "exhausted" /\ mc.it = 64
    /\ last_zoom_ms = <<65535, 65530>> /\ now_ms = <<65535, 65530>>
    /\ pal[255] = color565(255, 5, 0)

\* C13: from any state and clock, mandelbrot_tick(m, 0) renders exactly one
\* sample row and leaves y_next, scale, max_iter and the last zoom time
\* exactly as mandelbrot_tick(m, 1) does.
C13_ZeroBudget ==
    \A dts \in DtSeqs :
        LET zero == mandelbrot_tick(Engine, 0, dts)
            one  == mandelbrot_tick(Engine, 1, dts)
        IN  /\ Len(zero.rows) = 1
            /\ zero.rows[1].sy = m.y_next
            /\ zero.m = one.m
            /\ zero.last_zoom_ms = one.last_zoom_ms
            /\ zero.rows = one.rows

\* A tick with budget 0 has rendered row 118, completed the pass and
\* zoomed.
C13_Witness ==
    /\ Len(rows) = 1
    /\ rows[1].sy = 118 /\ rows[1].zoom /\ m.y_next = 0 /\ zoom_steps = 1

\* Budgets <<a, b>> and clock steps tried for a split call.
BudgetPairs == {<<1, 1>>, <<32, 88>>}
WrapSteps == {<<10, 4, 10>>, <<4, 10, 4>>}

\* mandelbrot_tick(a) then mandelbrot_tick(b) from the current state, the
\* clock readings at the pass wraps taken from dts in order: the final
\* engine state, and the rows of both calls.
SplitTick(n1, n2, dts) ==
    LET first  == mandelbrot_tick(Engine, n1, dts)
        used   == first.passes - passes
        second == mandelbrot_tick(first, n2, SubSeq(dts, used + 1, Len(dts)))
    IN  [st |-> second, rows_a |-> first.rows, rows_b |-> second.rows]

\* C14: for budgets a, b >= 1, mandelbrot_tick(a) followed by
\* mandelbrot_tick(b) leaves the same state and emits the same rows, in
\* the same order, as mandelbrot_tick(a + b) under the same clock readings
\* at the pass wraps; a call renders exactly as many rows as its budget.
C14_Resumable ==
    \A ab \in BudgetPairs, dts \in WrapSteps :
        LET split  == SplitTick(ab[1], ab[2], dts)
            single == mandelbrot_tick(Engine, ab[1] + ab[2], dts)
        IN  /\ Len(split.rows_a) = ab[1]
            /\ Len(split.rows_b) = ab[2]
            /\ Len(single.rows) = ab[1] + ab[2]
            /\ split.rows_a \o split.rows_b = single.rows
            /\ [split.st EXCEPT !.rows = << >>]
                   = [single EXCEPT !.rows = << >>]

\* A second tick of 32 rows has resumed where the first one stopped.
C14_Witness ==
    /\ passes = 0 /\ Len(rows) = 32
    /\ rows[1].sy = 32 /\ rows[1].y0 = 65 /\ m.y_next = 64

\* C16: bouncer_init stores r = 32 for a radius above 32 and r = radius
\* otherwise, stores the velocity and the three colours it is given, and
\* puts the centre at (160, 120); the radius and the colours stay as stored
\* through every tick.
C16_RadiusClamp ==
    /\ b.r = (IF args.radius > 32 THEN 32 ELSE args.radius)
    /\ b.bg = args.bg /\ b.border = args.border
    /\ color_log[1] = args.color
    /\ disp = bouncer_init_draws(b) =>
          /\ b.vx = args.vx /\ b.vy = args.vy /\ b.color = args.color
          /\ b.cx = 160 /\ b.cy = 120

\* bouncer_init has just clamped a radius of 40.
C16_Witness ==
    /\ args.radius = 40 /\ b.r = 32
    /\ disp = bouncer_init_draws(b)
    /\ b.vx = INT_MIN /\ b.cx = 160

\* v and w have the same magnitude as mathematical integers.
SameMagnitude(v, w) ==
    \/ v = w
    \/ v # INT_MIN /\ w # INT_MIN /\ v = -w

\* C17: after every sequence of bouncer_tick calls |vx| and |vy| are what
\* bouncer_init stored, and a tick leaves each velocity component
\* unchanged or negated.
C17_Elastic ==
    /\ [](SameMagnitude(b.vx, args.vx) /\ SameMagnitude(b.vy, args.vy))
    /\ [][/\ SameMagnitude(b.vx', b.vx)
          /\ SameMagnitude(b.vy', b.vy)]_vars

\* A tick has reversed both components of the velocity (6, -300).
C17_Witness ==
    /\ args.vx = 6 /\ args.vy = -300
    /\ b.vx = -6 /\ b.vy = 300
    /\ Len(disp) = 2

\* The drawing calls of a visible first frame of the ball: background
\* fill, border, ball at the centre of the screen.
BallFirstFrame ==
    /\ Len(disp) = 3
    /\ disp[1].op = "fill" /\ disp[1].color = b.bg
    /\ disp[2].op = "border" /\ disp[2].color = b.border
    /\ disp[3] = [op |-> "circle", cx |-> 160, cy |-> 120, r |-> b.r,
                  color |-> b.color]

\* C15 as stated: when handle_button_input has run bouncer_init the fill,
\* the border and the ball at the centre have been issued, and when it has
\* run mandelbrot_init the fractal engine has issued at least one row.
C15_Original ==
    step = "display" =>
        /\ Ran(entered, PAGE_BALL) => BallFirstFrame
        /\ Ran(entered, PAGE_MANDELBROT) => Len(rows) >= 1

\* C15: when bouncer_init returns, the fill, the border and the ball at
\* the centre have been issued; when mandelbrot_init returns the fractal
\* engine has issued no row, and the first rows are those of the first
\* mandelbrot_tick.
C15_InitFrame ==
    /\ step = "display" =>
          /\ Ran(entered, PAGE_BALL) => BallFirstFrame
          /\ Ran(entered, PAGE_MANDELBROT) => rows = << >> /\ m.y_next = 0
    /\ (step = "sleep" /\ Ran(ticked, PAGE_MANDELBROT) /\ passes = 0
           /\ m.y_next = HOST_LINES)
          => Len(rows) = HOST_LINES /\ rows[1].sy = 0 /\ rows[1].y0 = 1

\* One handle_button_input has run both init routines.
C15_Witness ==
    /\ step = "display"
    /\ entered = <<PAGE_BALL, PAGE_MANDELBROT>>
    /\ BallFirstFrame /\ b.color = CYAN
    /\ rows = << >> /\ m.max_iter = 64

\* handle_button_input has just accepted a press of pin: it stored the
\* clock reading of that button_pressed call in last_time[pin].
Accepted(pin) == step = "display" /\ last_time[pin] = read_at[pin]

\* C18: whenever X is accepted, also on the ball page, the ball is again at
\* (160, 120) with velocity (2, 2), radius 12, colour cyan and no frame
\* ticked; whenever Y is accepted, also on the fractal page, the fractal is
\* again at row 0 with max_iter 64, the initial scale and no pass or zoom
\* step counted.
C18_ReEntry ==
    /\ Accepted(BUTTON_X_PIN) =>
          /\ b.cx = 160 /\ b.cy = 120 /\ b.vx = 2 /\ b.vy = 2
          /\ b.r = 12 /\ b.color = 2047
          /\ frames = 0
    /\ Accepted(BUTTON_Y_PIN) =>
          /\ m.y_next = 0 /\ m.max_iter = 64 /\ m.scale = 2684354
          /\ passes = 0 /\ zoom_steps = 0 /\ rows = << >>
          /\ last_zoom_ms = to_ms_since_boot(clock)

\* X is accepted again on the ball page after the ball has moved.
C18_Witness ==
    /\ Accepted(BUTTON_X_PIN)
    /\ ticked = <<PAGE_BALL>>
    /\ calls = 2
    /\ b.cx = 160 /\ b.vx = 2 /\ frames = 0

\* The page a button selects.
PageOf(pin) ==
    IF pin = 12 THEN 0 ELSE IF pin = 13 THEN 1 ELSE IF pin = 14 THEN 2 ELSE 3

\* The buttons accepted by the handle_button_input step from the current
\* state to the next.
AcceptedNow == {pin \in Pins : last_time'[pin] # last_time[pin]}

\* C19: an accepted press of A, B, X or Y makes Clock, Quote, Ball or
\* Mandelbrot the current page (the last accepted button of the pass
\* wins) and runs the enter routine of that page in the same
\* handle_button_input; the page changes only in a handle_button_input
\* that accepts a press; the page is Clock after widget_init.
C19_Buttons ==
    /\ [](loops = 0 /\ step = "buttons" => page = 0)
    /\ [](step = "display" =>
             /\ \A pin \in Pins :
                   last_time[pin] = read_at[pin]
                       <=> Ran(entered, PageOf(pin))
             /\ entered # << >> => page = entered[Len(entered)])
    /\ [][/\ AcceptedNow # {} =>
                /\ step = "buttons"
                /\ \A pin \in AcceptedNow : Ran(entered', PageOf(pin))
                /\ \E pin \in AcceptedNow :
                      /\ page' = PageOf(pin)
                      /\ \A q \in AcceptedNow : q <= pin
          /\ page' # page => AcceptedNow # {}]_vars

\* B has been accepted on the ball page: the quote page is current and
\* its enter routine has run.
C19_Witness ==
    /\ step = "display"
    /\ last_time[13] = read_at[13]
    /\ entered = <<1>> /\ page = 1
    /\ ticked = <<2>>

\* The number of newlines in the byte sequence seq.
CountLF(seq) == Cardinality({i \in 1..Len(seq) : seq[i] = LF})

\* seq without its carriage returns.
StripCR(seq) == SelectSeq(seq, LAMBDA c : c # CR)

\* C20: a usb_time_sync_poll prints exactly one response for every
\* newline-terminated line it reads; the response is OK if and only if the
\* RTC was set from that line and otherwise one of ERR fmt, ERR range,
\* ERR rtc, ERR overflow; carriage returns in the input change nothing.
C20_Responses ==
    /\ Len(out) = CountLF(inp)
    /\ \A i \in 1..Len(out) :
          /\ out[i].msg \in {"OK", "ERR fmt", "ERR range", "ERR rtc",
                             "ERR overflow"}
          /\ out[i].msg = "OK" <=> out[i].set
    /\ \A input \in InputSet, rtc_ok \in BOOLEAN :
          usb_time_sync_poll(Sync, input, rtc_ok)
              = usb_time_sync_poll(Sync, StripCR(input), rtc_ok)

\* C21: the RTC is set from a line only if the line reads "T <epoch>" with
\* 1700000000 < epoch < 4102444800; a newline-terminated line that does
\* not read as "T <integer>" is answered ERR fmt and one with an epoch out
\* of range ERR range, and at both answers the RTC and the validity flag
\* are as they were before the line.
C21_EpochValidation ==
    [][\A i \in 1..Len(out') :
          LET r      == out'[i]
              p      == sscanf_epoch(r.line)
              before == IF i = 1 THEN [rtc |-> rtc, valid |-> g_time_valid]
                        ELSE [rtc |-> out'[i - 1].rtc,
                              valid |-> out'[i - 1].valid]
              kept   == r.rtc = before.rtc /\ r.valid = before.valid
          IN  /\ r.set => p.ok /\ ~epoch_out_of_range(p)
              /\ r.msg # "ERR overflow" =>
                    /\ ~p.ok => r.msg = "ERR fmt" /\ kept
                    /\ (p.ok /\ epoch_out_of_range(p))
                          => r.msg = "ERR range" /\ kept]_vars

\* w is v negated (the negation of INT_MIN is INT_MIN in the build).
Negated(w, v) == IF v = INT_MIN THEN w = INT_MIN ELSE w = -v

\* The collision rule of one axis: from coordinate c with velocity v and
\* boundaries lo and hi to coordinate c2 with velocity v2.
AxisRule(c, v, lo, hi, c2, v2) ==
    LET adv == IntAdd(c, v)
    IN  IF adv <= lo THEN c2 = lo /\ Negated(v2, v)
        ELSE IF adv >= hi THEN c2 = hi /\ Negated(v2, v)
        ELSE c2 = adv /\ v2 = v

\* C22: in every bouncer_tick, cx advanced by vx is set to the boundary
\* and vx negated exactly when the advanced cx is <= 1 + r or >= 318 - r,
\* and otherwise cx keeps the advanced value and vx stays; likewise for y
\* with 1 + r and 238 - r; each axis is decided from its own coordinate,
\* velocity and r alone.
C22_PerAxis ==
    [][/\ AxisRule(b.cx, b.vx, 1 + b.r, 318 - b.r, b.cx', b.vx')
       /\ AxisRule(b.cy, b.vy, 1 + b.r, 238 - b.r, b.cy', b.vy')]_vars

\* A ball of radius 32 has come to x = 286 exactly and turned back, with
\* no hit on the y axis in that tick.
C22_Witness ==
    /\ b.r = 32 /\ args.vx = 6 /\ args.vy = 0
    /\ b.cx = 286 /\ b.vx = -6
    /\ b.cy = 120 /\ b.vy = 0
    /\ Len(disp) = 2 /\ disp[1].cx = 280

\* The coordinate c advanced by v is at or beyond one of the boundaries.
AxisHit(c, v, lo, hi) ==
    LET adv == IntAdd(c, v) IN adv <= lo \/ adv >= hi

\* C23: a bouncer_tick changes the fill colour exactly when both axes
\* register a hit in that tick, and no tick changes r, bg or border.
C23_ColourOnCorner ==
    [][/\ b.color' # b.color <=>
             /\ AxisHit(b.cx, b.vx, 1 + b.r, 318 - b.r)
             /\ AxisHit(b.cy, b.vy, 1 + b.r, 238 - b.r)
       /\ b.r' = b.r /\ b.bg' = b.bg /\ b.border' = b.border]_vars

\* After ticks with hits on one axis only, a corner impact has changed the
\* colour once, from a colour outside the palette to red.
C23_Witness ==
    /\ args.vx = 6 /\ args.vy = -300 /\ args.color = 4660
    /\ color_log = <<4660, 63488>> /\ b.color = 63488
    /\ Len(disp) = 2

\* C24: every bouncer_tick issues first the circle at the centre before
\* the move in the background colour, then the circle at the centre after
\* the collisions in the fill colour as this tick leaves it; after every
\* tick (and after bouncer_init) the last circle drawn is at (cx, cy) in
\* the current colour.
C24_EraseThenDraw ==
    /\ [][disp' = << [op |-> "circle", cx |-> b.cx, cy |-> b.cy,
                      r |-> b.r, color |-> b.bg],
                     [op |-> "circle", cx |-> b.cx', cy |-> b.cy',
                      r |-> b.r', color |-> b.color'] >>]_vars
    /\ [](disp[Len(disp)] = [op |-> "circle", cx |-> b.cx, cy |-> b.cy,
                             r |-> b.r, color |-> b.color])

\* The first tick of a red ball hits a corner: it erases at (160, 120) and
\* draws at (13, 13) in green, the colour this tick changed to.
C24_Witness ==
    /\ args.radius = 12 /\ args.color = 63488
    /\ disp = << [op |-> "circle", cx |-> 160, cy |-> 120, r |-> 12,
                  color |-> 0],
                 [op |-> "circle", cx |-> 13, cy |-> 13, r |-> 12,
                  color |-> 2016] >>
    /\ b.color = 2016

\* C25: after precompute_circle(r), r in 0..32, halfw[dy] for every dy in
\* 0..r is the largest integer x >= 0 with x*x + dy*dy <= r*r.
C25_HalfWidthFormula ==
    cached_r >= 0 =>
        \A dy \in 0..cached_r :
            LET x == halfw[dy]
            IN  /\ x >= 0
                /\ x * x + dy * dy <= cached_r * cached_r
                /\ (x + 1) * (x + 1) + dy * dy > cached_r * cached_r

\* The table of radius 32: floor(sqrt(1024 - 100)) = 30 and
\* floor(sqrt(1024 - 400)) = 24.
C25_Witness ==
    /\ cached_r = 32 /\ calls = 1
    /\ halfw[10] = 30 /\ halfw[20] = 24 /\ halfw[31] = 7 /\ halfw[32] = 0

\* C26: precompute_circle rewrites the table only when the radius differs
\* from cached_r, and whenever bouncer_init or bouncer_tick has drawn, after
\* any sequence of bouncer_init and bouncer_tick calls, cached_r is the
\* ball's r and halfw[0..r] is the table of r.
C26_CacheCoherence ==
    /\ [][halfw' # halfw => cached_r' # cached_r]_vars
    /\ [](disp # << >> =>
             /\ cached_r = b.r
             /\ \A dy \in 0..b.r :
                   /\ halfw[dy] * halfw[dy] + dy * dy <= b.r * b.r
                   /\ (halfw[dy] + 1) * (halfw[dy] + 1) + dy * dy
                         > b.r * b.r)

\* A ball of radius 12 ticks after a second bouncer_init; the first one
\* had radius 32, whose entries above 12 are still in the table.
C26_Witness ==
    /\ calls = 2 /\ args.radius = 12 /\ cached_r = 12 /\ b.r = 12
    /\ halfw[12] = 0 /\ halfw[5] = 10 /\ halfw[20] = 24
    /\ Len(disp) = 2


\* The clipped extent of a row of half-width h about cx: [SpanLo, SpanHi].
SpanLo(cx, h) == IF cx <= h THEN 0 ELSE cx - h
SpanHi(cx, h) == IF cx >= SCREEN_WIDTH - 1 - h THEN SCREEN_WIDTH - 1 ELSE cx + h

\* The rows dy of the circle that lie on the screen with a clipped extent
\* that is not empty.
KeptRows(cx, cy, r, tab) ==
    { dy \in (-r)..r :
        LET h == tab[IF dy < 0 THEN -dy ELSE dy]
        IN  /\ -dy <= cy
            /\ cy <= SCREEN_HEIGHT - 1 - dy
            /\ SpanLo(cx, h) <= SpanHi(cx, h) }

\* Every span of sp lies on the screen, and sp holds exactly one span for
\* each kept row, the row's clipped extent, and no other span.
Clipped(sp, cx, cy, r, tab) ==
    /\ \A i \in 1..Len(sp) :
          /\ 0 <= sp[i].x0 /\ sp[i].x0 <= sp[i].x1
          /\ sp[i].x1 <= SCREEN_WIDTH - 1
          /\ 0 <= sp[i].y /\ sp[i].y <= SCREEN_HEIGHT - 1
    /\ Len(sp) = Cardinality(KeptRows(cx, cy, r, tab))
    /\ \A dy \in KeptRows(cx, cy, r, tab) :
          LET h == tab[IF dy < 0 THEN -dy ELSE dy]
          IN  \E i \in 1..Len(sp) :
                 /\ sp[i].y = cy + dy
                 /\ sp[i].x0 = SpanLo(cx, h)
                 /\ sp[i].x1 = SpanHi(cx, h)

\* C27: for any centre (cx, cy) and radius r <= 32, the spans
\* draw_circle_spans emits lie on the screen, rows off the screen and rows
\* with an empty clipped extent emit nothing, and every other row emits
\* exactly the span [max(0, cx - halfw), min(319, cx + halfw)].
C27_SpanClipping ==
    span_in.r >= 0 =>
        Clipped(spans, span_in.cx, span_in.cy, span_in.r, halfw)

\* A radius-32 circle centred at (324, 244), off the lower right corner:
\* rows -31..-5 are sent, clipped on the right to [317..319] in the first.
C27_Witness ==
    /\ span_in = [cx |-> 324, cy |-> 244, r |-> MAX_R]
    /\ Len(spans) = 27
    /\ spans[1] = [x0 |-> 317, y |-> 213, x1 |-> 319, len |-> 3]
    /\ spans[27] = [x0 |-> 293, y |-> 239, x1 |-> 319, len |-> 27]

\* The engine before row i of the tick just made (rows' holds its rows).
RowBefore(i) ==
    [scale |-> rows'[i].scale, max_iter |-> rows'[i].max_iter,
     y_next |-> rows'[i].sy,
     last_zoom_ms |-> IF i = 1 THEN last_zoom_ms
                      ELSE rows'[i - 1].last_zoom_ms]

\* The engine after row i of the tick just made.
RowAfter(i) ==
    [scale |-> IF i < Len(rows') THEN rows'[i + 1].scale ELSE m'.scale,
     max_iter |-> IF i < Len(rows') THEN rows'[i + 1].max_iter
                  ELSE m'.max_iter,
     y_next |-> IF i < Len(rows') THEN rows'[i + 1].sy ELSE m'.y_next,
     last_zoom_ms |-> rows'[i].last_zoom_ms]

\* Row i of the tick just made obeys the zoom gate.
RowGated(i) ==
    LET bf == RowBefore(i)
        af == RowAfter(i)
        wrapped == bf.y_next = SAMPLE_H - 1 /\ af.y_next = 0
        now == U32Add(bf.last_zoom_ms, rows'[i].diff)
        open == wrapped /\ U32Ge(rows'[i].diff, ZOOM_INTERVAL_MS)
        stepped == af.scale # bf.scale \/ af.max_iter # bf.max_iter
    IN  /\ stepped => open
        /\ open =>
              /\ af.scale = fx_mul(bf.scale, ZOOM_FACTOR)
              /\ af.max_iter = IF bf.max_iter < MAX_ITER_CAP
                               THEN bf.max_iter + 1 ELSE bf.max_iter
              /\ af.last_zoom_ms = now
        /\ ~open =>
              /\ af.scale = bf.scale
              /\ af.max_iter = bf.max_iter
              /\ af.last_zoom_ms = bf.last_zoom_ms
        /\ ~wrapped => af.y_next = bf.y_next + 1
        /\ rows'[i].cx = m.cx /\ rows'[i].cy = m.cy

\* C28: zoom gating.  Scale or max_iter change only at the row that wraps
\* y_next from SAMPLE_H - 1 to 0, and only if the unsigned 32-bit
\* difference now - last_zoom_ms is at least 10; a wrap applies at most one
\* zoom step; a step sets last_zoom_ms to now, a closed gate leaves scale,
\* max_iter and last_zoom_ms as they were; a row that does not complete a
\* pass changes only y_next; no tick changes the centre.
C28_ZoomGating ==
    [][ /\ rows'[1].scale = m.scale /\ rows'[1].max_iter = m.max_iter
        /\ rows'[1].sy = m.y_next
        /\ rows'[Len(rows')].last_zoom_ms = last_zoom_ms'
        /\ rows'[Len(rows')].wrap =>
              rows'[Len(rows')].diff
                  = U32Sub(now_ms', RowBefore(Len(rows')).last_zoom_ms)
        /\ \A i \in 1..Len(rows') : RowGated(i)
        /\ m'.cx = m.cx /\ m'.cy = m.cy ]_vars

\* Two passes completed 4 ms and then 10 ms after the previous reading: the
\* first wrap found the gate closed (4 < 10), the second found it open
\* (14 >= 10) and zoomed once, stamping last_zoom_ms with the reading.
C28_Witness ==
    /\ passes = 2 /\ zoom_steps = 1
    /\ rows[Len(rows)].wrap /\ rows[Len(rows)].zoom
    /\ rows[Len(rows)].diff = U32(14)
    /\ last_zoom_ms = now_ms
    /\ m.max_iter = MAX_ITER_INIT + 1
    /\ m.scale = fx_mul(SCALE_INIT, ZOOM_FACTOR)

\* The display rows 1..238 of the drawable area.
FirstRow == BORDER
LastRow == SCREEN_HEIGHT - 1 - BORDER

\* The k-th display row written by the pass whose sample row 0 is rows[j].
PassWrite(j, k) ==
    rows[j + (k - 1) \div 2].pushed[IF k % 2 = 1 THEN 1 ELSE 2]

\* C29: 1x2 upscaled progressive scan.  For sample row sy the tick renders
\* one scanline for display row y0 = 1 + 2*sy and pushes it to rows y0 and
\* y0 + 1, in that order, before it advances y_next (the next row rendered
\* is the one after, or row 0 after row 118); over a full pass the display
\* rows 1..238 are each written once, in increasing order, and the border
\* rows 0 and 239 are never written.
C29_ProgressiveScan ==
    /\ [](/\ \A i \in 1..Len(rows) :
                /\ rows[i].rendered = 1 + 2 * rows[i].sy
                /\ rows[i].pushed = <<rows[i].rendered, rows[i].rendered + 1>>
                /\ rows[i].pushed[1] >= FirstRow
                /\ rows[i].pushed[2] <= LastRow
                /\ LET nxt == IF i < Len(rows) THEN 1 + 2 * rows[i + 1].sy
                              ELSE 1 + 2 * m.y_next
                   IN  nxt = IF rows[i].pushed[2] = LastRow THEN FirstRow
                             ELSE rows[i].pushed[2] + 1
          /\ \A j \in 1..Len(rows) :
                (rows[j].sy = 0 /\ j + SAMPLE_H - 1 <= Len(rows)) =>
                    \A k \in FirstRow..LastRow : PassWrite(j, k) = k)
    /\ [][rows'[1].rendered = 1 + 2 * m.y_next]_vars

\* One tick of 120 rows from sample row 0: rows 1 and 2 first, rows 237 and
\* 238 from sample row 118, then rows 1 and 2 again for the next pass.
C29_Witness ==
    /\ Len(rows) = SAMPLE_H + 1
    /\ rows[1].sy = 0 /\ rows[1].pushed = <<1, 2>>
    /\ rows[2].pushed = <<3, 4>>
    /\ rows[SAMPLE_H].sy = 118 /\ rows[SAMPLE_H].pushed = <<237, 238>>
    /\ rows[SAMPLE_H + 1].pushed = <<1, 2>>
    /\ m.y_next = 1

\* The escape test of the loop, as the code evaluates it in Q4.28.
EscapeTest(zr, zi) == fx_add(fx_mul(zr, zr), fx_mul(zi, zi)) > FX_FOUR

\* C30: escape-count colouring.  A mandel_color call whose loop ends by
\* escape has it < max_iter and returns pal[floor(it * 255 / max_iter)];
\* the loop counts an iteration only when the test |z|^2 > 4 failed before
\* the update z <- z^2 + c, and it stops at the first of escape and
\* it = max_iter.
C30_EscapeColour ==
    /\ [](mc.pc = "escaped" =>
             /\ mc.it < mc.max_iter
             /\ mc.ret # -1 => mc.ret = pal[(mc.it * 255) \div mc.max_iter])
    /\ [][mc.pc = "loop" =>
             LET esc == EscapeTest(mc.zr, mc.zi)
                 full == mc.it = mc.max_iter
             IN  /\ mc'.it # mc.it => ~esc /\ ~full
                 /\ full => mc'.pc = "exhausted" /\ mc'.it = mc.it
                 /\ (~full /\ esc) => mc'.pc = "escaped" /\ mc'.it = mc.it
                 /\ (~full /\ ~esc) =>
                       /\ mc'.pc = "loop" /\ mc'.it = mc.it + 1
                       /\ mc'.zr = fx_add(fx_sub(fx_mul(mc.zr, mc.zr),
                                                 fx_mul(mc.zi, mc.zi)), mc.cr)
                       /\ mc'.zi = fx_add(fx_add(fx_mul(mc.zr, mc.zi),
                                                 fx_mul(mc.zr, mc.zi)), mc.ci)
                 /\ mc'.it <= mc.max_iter]_vars

\* A pixel of the first frame (max_iter 64) that escaped after 5 counted
\* iterations has been given palette entry floor(5 * 255 / 64) = 19.
C30_Witness ==
    /\ mc.pc = "escaped" /\ mc.it = 5 /\ mc.max_iter = MAX_ITER_INIT
    /\ mc.ret = pal[19] /\ mc.ret # pal[5]
    /\ EscapeTest(mc.zr, mc.zi)

\* button_pressed(pin) returned true in the handle_button_input step from
\* the current state to the next.
Pressed(pin) == last_time'[pin] # last_time[pin]

\* C31: button debounce.  button_pressed(pin) returns true exactly when the
\* pin reads low and more than 200 ms (uint32_t difference) have passed
\* since the time recorded for that pin, the time of its last accepted
\* press, and then records the current time for that pin alone: the table
\* changes in no other way, so two accepted presses of one pin are more
\* than 200 ms apart and what happens to one button has no effect on the
\* acceptance of another.
C31_Debounce ==
    [][\A pin \in Pins :
          /\ Pressed(pin) <=>
                /\ step = "buttons"
                /\ pin \in pins_low'
                /\ U32Ge(U32Sub(read_at'[pin], last_time[pin]),
                         DEBOUNCE_MS + 1)
          /\ Pressed(pin) => last_time'[pin] = read_at'[pin]]_vars

\* A is accepted at 500 ms, X and Y together at 516 ms (16.4 ms after A)
\* and again at 717 ms, 201 ms after their last accepted press.
C31_Witness ==
    /\ step = "display" /\ loops = 2
    /\ pins_low = {BUTTON_X_PIN, BUTTON_Y_PIN}
    /\ clock = AbsTime(717, 400)
    /\ last_time[BUTTON_A_PIN] = U32(500)
    /\ last_time[BUTTON_X_PIN] = U32(717)
    /\ last_time[BUTTON_Y_PIN] = U32(717)
    /\ entered = <<PAGE_BALL, PAGE_MANDELBROT>>

(***************************************************************************)
(* Properties of the clock                                                 *)
(***************************************************************************)
\* The weekday before weekday w.
PrevDotw(w) == IF w = 0 THEN 6 ELSE w - 1

\* C32: timezone offset.  For every RTC reading (hour 0..23, dotw 0..6),
\* apply_timezone_simple with offset -5 leaves hour = (hour - 5) mod 24 in
\* 0..23 and dotw in 0..6; dotw is the previous weekday exactly when
\* hour - 5 < 0, and then day is one less if it was above 1 and stays 1
\* otherwise, so day is never below 1; otherwise dotw and day stay; month
\* and year never change.
C32_Timezone ==
    tz_out # Unwritten =>
        /\ tz_out.hour = (tz_in.hour - 5) % 24
        /\ tz_out.hour \in 0..23
        /\ tz_out.dotw \in 0..6
        /\ tz_in.hour - 5 < 0 =>
              /\ tz_out.dotw = PrevDotw(tz_in.dotw)
              /\ tz_out.day = IF tz_in.day > 1 THEN tz_in.day - 1 ELSE 1
        /\ tz_in.hour - 5 >= 0 =>
              /\ tz_out.dotw = tz_in.dotw
              /\ tz_out.day = tz_in.day
        /\ tz_out.day >= 1
        /\ tz_out.month = tz_in.month
        /\ tz_out.year = tz_in.year

\* 03:30 UTC on a Sunday, the first of the month, becomes 22:30 on a
\* Saturday, still the first.
C32_Witness ==
    /\ tz_in.hour = 3 /\ tz_in.dotw = 0 /\ tz_in.day = 1
    /\ tz_out.hour = 22 /\ tz_out.dotw = 6 /\ tz_out.day = 1
    /\ tz_out.month = tz_in.month

\* The drawing calls in seq that draw a date or a time.
DateTimeDrawn(seq) ==
    {i \in 1..Len(seq) : seq[i].op = "date" \/ seq[i].op = "time"}

\* C33: clock validity.  clock_time_valid() is false from boot until the
\* first clock_set_epoch_utc whose rtc_set_datetime succeeded, becomes true
\* only then, and never becomes false again; while it is false
\* clock_get_local_datetime returns false without writing *out, and the
\* clock page draws no date and no time.
C33_ClockValidity ==
    /\ [](/\ polls = 0 => ~g_time_valid
          /\ g_time_valid <=> rtc # <<0, 0>>
          /\ ~g_time_valid =>
                /\ ~got.ret /\ got.out = Unwritten
                /\ DateTimeDrawn(clock_drawn) = {})
    /\ [][/\ g_time_valid => g_time_valid'
          /\ (~g_time_valid /\ g_time_valid') =>
                \E i \in 1..Len(out') : out'[i].set /\ out'[i].msg = "OK"
          /\ (got' # got /\ ~g_time_valid) =>
                /\ ~got'.ret /\ got'.out = Unwritten
                /\ DateTimeDrawn(clock_drawn') = {}
          /\ got'.ret => got'.out # Unwritten]_vars

\* A sync whose rtc_set_datetime failed has left the clock invalid, and the
\* clock page entered after it has drawn its frame but no date or time.
C33_Witness ==
    /\ ~g_time_valid /\ rtc = <<0, 0>>
    /\ Len(out) = 1 /\ out[1].msg = "ERR rtc"
    /\ ~got.ret /\ got.out = Unwritten
    /\ clock_drawn = << [op |-> "fill"], [op |-> "border"] >>

\* One axis of a tick from centre c and velocity v to c2 and v2, between
\* the limits lo and hi: after a hit of the low side the velocity is
\* positive, after a hit of the high side negative, and the tick that
\* follows does not hit that side again.
NoStick(c, v, lo, hi, c2, v2) ==
    LET adv  == IntAdd(c, v)
        low  == adv <= lo
        high == ~low /\ adv >= hi
    IN  /\ low => v2 > 0 /\ ~(IntAdd(c2, v2) <= lo)
        /\ high => v2 < 0 /\ ~(IntAdd(c2, v2) >= hi)

\* C34: for a ball initialised with radius <= 32 and a nonzero velocity
\* component, a tick that hits a wall leaves that component pointing into
\* the interior, and the next tick does not hit the same wall.
C34_NoSticking ==
    [][/\ args.vx # 0 =>
              NoStick(b.cx, b.vx, min_x(b), max_x(b), b.cx', b.vx')
       /\ args.vy # 0 =>
              NoStick(b.cy, b.vy, min_y(b), max_y(b), b.cy', b.vy')]_vars

\* The radius-12 ball sent left at 300 per tick has hit the left wall in
\* its first tick and now moves right; sent down at 6 per tick it has not
\* reached a wall in y.
C34_Witness ==
    /\ args.radius = 12 /\ args.vx = -300 /\ args.vy = 6
    /\ Len(disp) = 2 /\ disp[1].cx = 160
    /\ b.cx = 13 /\ b.vx = 300
    /\ b.cy = 126 /\ b.vy = 6

\* The circles among the drawing calls of the last ball routine.
CirclesDrawn == {i \in 1..Len(disp) : disp[i].op = "circle"}

\* The spans draw_circle_spans sends for drawing call i.
SpansOf(i) == draw_circle_spans(disp[i].cx, disp[i].cy, disp[i].r, halfw)

\* C35: the ball never paints over the border.  Every circle bouncer_init
\* and bouncer_tick draw (the erase at the old centre and the draw at the
\* new centre) is sent as spans within columns 1..318 and rows 1..238, and
\* no clipping branch of draw_circle_spans is taken: every row -r..r is
\* sent, with its whole extent [cx - halfw, cx + halfw].
C35_BorderKept ==
    \A i \in CirclesDrawn :
        LET sp == SpansOf(i)
            r  == disp[i].r
        IN  /\ \A k \in 1..Len(sp) :
                  /\ BORDER <= sp[k].x0
                  /\ sp[k].x1 <= SCREEN_WIDTH - 1 - BORDER
                  /\ BORDER <= sp[k].y
                  /\ sp[k].y <= SCREEN_HEIGHT - 1 - BORDER
            /\ Len(sp) = IF r >= 0 THEN 2 * r + 1 ELSE 0
            /\ \A k \in 1..Len(sp) :
                  LET dy == k - 1 - r
                      h  == halfw[IF dy < 0 THEN -dy ELSE dy]
                  IN  /\ sp[k].y = disp[i].cy + dy
                      /\ sp[k].x0 = disp[i].cx - h
                      /\ sp[k].x1 = disp[i].cx + h

\* The largest ball has been put on the left and bottom limits by its 15th
\* tick: its new circle spans columns 1..65 in row 206 and ends in row 238.
C35_Witness ==
    /\ Len(disp) = 2 /\ frames = 15
    /\ b.r = MAX_R /\ b.cx = 33 /\ b.cy = 206
    /\ SpansOf(2)[33] = [x0 |-> 1, y |-> 206, x1 |-> 65, len |-> 65]
    /\ SpansOf(2)[65].y = 238

\* C36: span buffer bounds.  For every draw_circle_spans call bouncer_init
\* and bouncer_tick make, the radius is at most 32, every index |dy| at
\* which halfw is read is within 0..r, inside halfw[33], and every span
\* transferred is at most 2*r + 1 <= 65 pixels long: within the part of
\* the 65-entry spanbuf the call has filled.
C36_SpanBuffer ==
    \A i \in CirclesDrawn :
        LET r   == disp[i].r
            idx == halfw_reads(r)
            sp  == SpansOf(i)
        IN  /\ r <= MAX_R
            /\ spanbuf_filled(r) <= SPANBUF_LEN
            /\ SPANBUF_LEN = 65
            /\ \A k \in 1..Len(idx) :
                  idx[k] \in 0..r /\ idx[k] \in DOMAIN halfw
            /\ DOMAIN halfw = 0..32
            /\ \A k \in 1..Len(sp) :
                  /\ sp[k].len >= 1
                  /\ sp[k].len <= spanbuf_filled(r)
                  /\ sp[k].len <= 2 * r + 1

\* The ball of a bouncer_init called with radius 40 is drawn by its first
\* tick with radius 32: the middle row is 65 pixels long, the whole span
\* buffer, and the first row reads halfw[32].
C36_Witness ==
    /\ args.radius = MAX_R + 8 /\ frames = 1
    /\ Len(disp) = 2 /\ disp[2].r = MAX_R
    /\ SpansOf(2)[33].len = SPANBUF_LEN
    /\ halfw_reads(disp[2].r)[1] = MAX_R
    /\ SpansOf(2)[1].len = 1

(***************************************************************************)
(* Properties of the palette index                                         *)
(***************************************************************************)
\* The palette index mandel_color computes from frame f, before the
\* narrowing to 8 bits.
PaletteIndex(f) == (f.it * 255) \div f.max_iter

\* C37: escaped pixels never use the reserved palette slot. In every frame
\* of the zoom max_iter is within 64..140, palette entry 0 is black, and a
\* pixel whose orbit escaped has 1 <= it < max_iter, so that its palette
\* index floor(it * 255 / max_iter) is within 1..254: never 0, unchanged by
\* the narrowing to 8 bits, and the colour returned is that palette entry.
C37_ReservedSlot ==
    /\ m.max_iter \in MAX_ITER_INIT..MAX_ITER_CAP
    /\ mc.max_iter \in MAX_ITER_INIT..MAX_ITER_CAP
    /\ pal[0] = color565(0, 0, 0)
    /\ mc.pc = "escaped" =>
          /\ 1 <= mc.it /\ mc.it < mc.max_iter
          /\ PaletteIndex(mc) \in 1..254
          /\ PaletteIndex(mc) % 256 = PaletteIndex(mc)
          /\ mc.ret # -1 => mc.ret = pal[PaletteIndex(mc)]

\* A pixel of a frame rendered with max_iter at its cap of 140 has escaped
\* and got its colour.
C37_Witness ==
    /\ mc.pc = "escaped" /\ mc.ret # -1
    /\ mc.max_iter = MAX_ITER_CAP
    /\ zoom_steps >= MAX_ITER_CAP - MAX_ITER_INIT

(***************************************************************************)
(* Properties of the host's engine ticks                                   *)
(***************************************************************************)
\* The ball bo after k more ticks.
RECURSIVE BallRun(_, _)
BallRun(bo, k) ==
    IF bo.r >= 0 /\ k = 0 THEN bo ELSE BallRun(bouncer_tick(bo).b, k - 1)

\* The ball k ticks after page_ball_enter's bouncer_init.
BallAfter(k) == BallRun(bouncer_init(12, 2, 2, BLACK, RED, CYAN), k)

\* The number of engine ticks among the updates seq of a loop pass.
RECURSIVE EngineTicks(_)
EngineTicks(seq) ==
    IF seq = << >> THEN 0
    ELSE (IF Head(seq) \in {PAGE_BALL, PAGE_MANDELBROT} THEN 1 ELSE 0)
         + EngineTicks(Tail(seq))

\* This step of the loop calls bouncer_tick, respectively mandelbrot_tick.
BallTicked == step = "display" /\ Ran(ticked', PAGE_BALL)
MandelTicked == step = "display" /\ Ran(ticked', PAGE_MANDELBROT)

\* The ball engine is as bouncer_init and the ticks since have left it;
\* the fractal engine is as mandelbrot_init and the ticks since have.
BallReady ==
    /\ calls >= 1 /\ cached_r = b.r
    /\ b = BallAfter(frames)
MandelReady ==
    /\ pal = palette_init
    /\ m.cx = CENTER_X /\ m.cy = CENTER_Y
    /\ m.max_iter \in MAX_ITER_INIT..MAX_ITER_CAP
    /\ m.y_next \in 0..SAMPLE_H

\* What every step of the main loop does to the engines: ticks go to the
\* engine of the current page only, the engines' state changes in
\* handle_display_updates by these calls only, at most one engine is
\* ticked, none on the Clock or Quote page, and a step that makes Ball or
\* Mandelbrot the current page runs that engine's init.
EngineStep ==
    /\ BallTicked => page = PAGE_BALL /\ BallReady
    /\ MandelTicked => page = PAGE_MANDELBROT /\ MandelReady
    /\ step = "display" =>
          /\ BallTicked <=> frames' = frames + 1
          /\ BallTicked <=> b' # b
          /\ MandelTicked <=> m' # m
          /\ EngineTicks(ticked') <= 1
          /\ page \in {PAGE_CLOCK, PAGE_QUOTE} =>
                /\ EngineTicks(ticked') = 0
                /\ UNCHANGED <<ballVars, mandelVars>>
    /\ (step = "buttons" /\ page' = PAGE_BALL
          /\ (page # PAGE_BALL \/ entered' # << >>)) =>
          /\ frames' = 0 /\ calls' = calls + 1
          /\ b' = bouncer_init(12, 2, 2, BLACK, RED, CYAN)
          /\ cached_r' = b'.r
    /\ (step = "buttons" /\ page' = PAGE_MANDELBROT
          /\ (page # PAGE_MANDELBROT \/ entered' # << >>)) =>
          /\ Engine' = mandelbrot_init(to_ms_since_boot(clock'))
          /\ pal' = palette_init

\* C38: the host never ticks an uninitialised or inactive engine. Whenever
\* the page is Ball the ball engine is as bouncer_init and the ticks since
\* have left it, whenever it is Mandelbrot the fractal engine is as
\* mandelbrot_init and the ticks since have left it; and in every step of
\* the main loop bouncer_tick is called only while the page is Ball and
\* mandelbrot_tick only while it is Mandelbrot, each on an engine its init
\* has set up at the entry of the page, at most one engine is ticked per
\* pass, and none on the Clock or Quote page.
C38_EngineTicks ==
    /\ [](/\ page = PAGE_BALL => BallReady
          /\ page = PAGE_MANDELBROT => MandelReady)
    /\ [][EngineStep]_vars

\* The Ball page was entered and its engine ticked, then the Mandelbrot
\* page was entered, and this pass has ticked the fractal engine alone.
C38_Witness ==
    /\ page = PAGE_MANDELBROT /\ step = "sleep"
    /\ ticked = <<PAGE_MANDELBROT>>
    /\ frames >= 1 /\ m.y_next = HOST_LINES

(***************************************************************************)
(* Properties of the serial line buffer                                    *)
(***************************************************************************)
\* C39: serial line buffer bounds. After every usb_time_sync_poll, for any
\* bytes received, the index n is within 0..63; every store the poll made,
\* of a byte or of the terminating NUL of a newline, was at an index
\* within the 64-byte buffer; n was 0 after every newline and after every
\* overflow, an overflow happening exactly when the buffer holds 63 bytes;
\* and n counts the bytes of the current line modulo 64.
C39_LineBuffer ==
    /\ DOMAIN buf = 0..63
    /\ sync_n \in 0..(BUF_SIZE - 1)
    /\ sync_n = Len(line) % BUF_SIZE
    /\ \A k \in 1..Len(stores) :
          LET s == stores[k]
          IN  /\ s.n \in 0..(BUF_SIZE - 1)
              /\ s.kind \in {"byte", "nul"} => s.at \in DOMAIN buf
              /\ s.kind = "byte" => s.n = s.at + 1
              /\ s.kind = "nul" => s.n = 0
              /\ s.kind = "overflow" => s.n = 0 /\ s.at = BUF_SIZE - 1
              /\ k > 1 => s.at = stores[k - 1].n
    /\ stores # << >> => sync_n = stores[Len(stores)].n

\* The first poll has received 63 bytes and a newline: the bytes went to
\* buf[0..62] and the NUL to buf[63], the last entry, and n is 0 again.
C39_Witness ==
       /\ Len(stores) = BUF_SIZE
       /\ stores[BUF_SIZE - 1] = [kind |-> "byte", at |-> BUF_SIZE - 2,
                                  n |-> BUF_SIZE - 1]
       /\ stores[BUF_SIZE] = [kind |-> "nul", at |-> BUF_SIZE - 1, n |-> 0]
       /\ buf[BUF_SIZE - 1] = NUL /\ buf[BUF_SIZE - 2] = "x"
       /\ sync_n = 0 /\ polls = 1
       /\ inp = Rep("x", BUF_SIZE - 1) \o <<LF>>
=============================================================================
